---- MODULE Spec2Model ----
(***************************************************************************)
(* bucardo_wrapper: the index migration workflow (plugins/indexes), the    *)
(* trigger state coordinator (plugins/bucardo) and the lock-timeout retry  *)
(* governor (plugins/retry), as state machines over the catalogs of the    *)
(* primary and secondary databases and the bucardo metadata database.     *)
(***************************************************************************)
EXTENDS Integers, Sequences, FiniteSets, TLC

VARIABLES
    \* ---- index migration workflow (plugins/indexes) ----
    pcat,          \* primary catalog: the indexes / constraints that exist
    relsize,       \* primary: pg_relation_size of every table
    scat,          \* secondary catalog
    store,         \* manage_indexes.index_definitions (the Backup Store)
    ipc,           \* position of the operator inside Indexes.drop / recreate
    todo,          \* drop(): tables still to visit
    safe_to_drop,  \* drop(): the local flag of the same name
    imode,         \* _execute_ddl: its recreate_or_drop argument
    ddlq,          \* _execute_ddl: rows fetched whose DDL is not yet executed
    issued,        \* history: statements sent to the secondary in this run
    discovered,    \* history: definitions discovered by this drop() run
    mismatch,      \* history: a visited table had discovered # stored count
    captured,      \* history: create DDL the last dropping run captured, per name
    ires,          \* how the last index operation ended
    iconn,         \* the connection (conn) the index operation holds open
    scat0,         \* history: the secondary catalog when _execute_ddl connected
    ierror,        \* the counts in the message of the exception the gate raised
    prev_drop_ok,  \* history: the last operation was a drop() that succeeded, and
                   \* the primary has not changed since
    from_empty,    \* history: the Backup Store was empty when this drop() began
    \* ---- trigger coordinator and retry governor (plugins/bucardo, plugins/retry) ----
    cascade,       \* cfg["databases"]["primary"]["cascade"]
    async_kick,    \* cfg["bucardo"]["asynchronous_kicking"]
    tg,            \* primary: pg_trigger.tgenabled of every bucardo trigger
    syncs,         \* bucardo.sync: the names of the registered syncs
    lock_timeout,  \* the lock_timeout setting of the primary's database owner role
    tpc,           \* position of the operator inside the running operation
    top,           \* the operation the wrapper is executing
    passes,        \* _manage_triggers: the _toggle_triggers calls still to make
    tq,            \* the tables (drop_triggers: table/trigger pairs) still to visit
    tres,          \* how the operation ended
    tconn,         \* the connection (conn) the trigger operation holds open
    alters,        \* history: ALTER statements issued by this _manage_triggers call
    skipped,       \* history: the "Could not modify/drop" diagnostics of this operation
    tg0,           \* history: tg when this _manage_triggers call began
    again,         \* history: how the directly preceding _manage_triggers call ended
    prevM,         \* history: the last completed _manage_triggers call, if nothing changed since
    syncs0,        \* history: bucardo.sync when the operation began
    addSyncCalls,  \* history: "bucardo add sync" calls of this operation
    validated,     \* history: this operation called bucardo.validate_sync
    own_timeout0,  \* history: the role had a lock_timeout its owner had set ("5s")
                   \* when the operation began
    \* ---- configuration (plugins/__init__, Indexes.__init__, Bucardo.add_triggers) ----
    cfg_indexes,   \* cfg["indexes"]: the section of the indexes plugin
    cfg_bucardo,   \* cfg["bucardo"]: replication_objects and copy_data
    repl_objects,  \* Indexes: self.repl_objects
    one_time_copy, \* Bucardo.add_triggers: the onetimecopy value given to the engine
    kpc,           \* construction of the Indexes plugin: not yet, done, failed
    kres,          \* the exception the construction raised
    \* ---- the command loop of wrapper.py ----
    cmds,          \* the commands of --list_commands not yet gone through
    wpc,           \* position in the loop: execute, validate, ended
    exit_status,   \* exit status of the process, once it has ended
    log,           \* history: per command gone into, how func and valid ended
    \* ---- Bucardo.wait_for_copy ----
    sync_rows,     \* bucardo.sync: the onetimecopy column, per sync name
    ppc,           \* position inside wait_for_copy: idle, connect, query, sleep, done
    pres,          \* how the last wait_for_copy call ended
    pconn,         \* the connection (conn) the current poll holds open
    read_zero,     \* history: a poll of the last wait_for_copy call read 0
    waited,        \* history: the last wait_for_copy call returned True

    \* ---- Indexes._convert_units ----
    larger_than,   \* cfg["indexes"]["larger_than"], as the operator wrote it
    converted,     \* what _convert_units returned
    query_param,   \* the third parameter of the size-comparison query
    upc,           \* start, converted, queried
    \* ---- Retry operations of several replication names at once ----
    schema_owner,  \* cfg['databases']['primary']['schema_owner']
    role_timeout,  \* role -> the lock_timeout ALTER ROLE has set for it
    opc,           \* replication name -> where its Retry operation is
    sess,          \* replication name -> lock_timeout of its open session
    calls,         \* replication name -> connections the operation has yet to open
    rq,            \* replication name -> tables its open connection has yet to visit
    issued_in,     \* history: <<replication name, lock_timeout>> of the statements issued
    \* ---- the tables of a replication, as each step finds them ----
    pg_class,      \* relation -> its relkind, whether it has children, whether the filter matches it
    registered,    \* the tables install handed to `bucardo add tables`
    reconciled,    \* the tables the last _toggle_triggers call looped over
    undone,        \* the tables the last drop_triggers call looped over
    \* ---- the background kick process of asynchronous kicking ----
    kick_alive,        \* pids of the `watch ... bucardo kick` processes that run
    autokick_pidfile,  \* content of the pidfile, or NoFile
    next_pid,          \* the pid the next Popen gets
    last_call          \* history: the daemon command that returned last

ivars == <<pcat, relsize, scat, store, ipc, todo, safe_to_drop, imode, ddlq, issued,
           discovered, mismatch, captured, ires, iconn, scat0, ierror, prev_drop_ok, from_empty>>

cfgv == <<cascade, async_kick>>
dbv == <<tg, syncs, lock_timeout>>
ctl == <<tpc, top, passes, tq, tres, tconn>>
hist == <<alters, skipped, tg0, again, prevM, syncs0, addSyncCalls, validated>>
tvars == <<cfgv, dbv, ctl, hist, own_timeout0>>

cvars == <<cfg_indexes, cfg_bucardo, repl_objects, one_time_copy, kpc, kres>>

wvars == <<cmds, wpc, exit_status, log>>

pvars == <<sync_rows, ppc, pres, pconn, read_zero, waited>>

uvars == <<larger_than, converted, query_param, upc>>

ovars == <<schema_owner, role_timeout, opc, sess, calls, rq, issued_in>>

rvars == <<pg_class, registered, reconciled, undone>>

avars == <<kick_alive, autokick_pidfile, next_pid, last_call>>

vars == <<ivars, tvars, cvars, wvars, pvars, uvars, ovars, rvars, avars>>

\* What the actions of one component leave alone.
notIdx == <<tvars, cvars, wvars, pvars, uvars, ovars, rvars, avars>>
notTrig == <<ivars, cvars, wvars, pvars, uvars, ovars, rvars, avars>>
notCfg == <<ivars, tvars, wvars, pvars, uvars, ovars, rvars, avars>>
notWrap == <<ivars, tvars, cvars, pvars, uvars, ovars, rvars, avars>>
notWait == <<ivars, tvars, cvars, wvars, uvars, ovars, rvars, avars>>
notUnits == <<ivars, tvars, cvars, wvars, pvars, ovars, rvars, avars>>
notOps == <<ivars, tvars, cvars, wvars, pvars, uvars, rvars, avars>>
notRels == <<ivars, tvars, cvars, wvars, pvars, uvars, ovars, avars>>
notKick == <<ivars, tvars, cvars, wvars, pvars, uvars, ovars, rvars>>

-----------------------------------------------------------------------------
(* The fixed universe of the index workflow.                               *)

repl_name == "repl1"
Ns == "public"
Tables == {"t1", "t2"}

\* cfg["indexes"]["larger_than"] in the unit of relsize (default "10 GB").
LargerThan == 10
Sizes == {LargerThan, LargerThan + 1}

\* A catalog object: every kind has an index of that name (pg_indexes);
\* kinds "p" and "u" also have a pg_constraint row of that name.
Obj(t, n, k, v) == [tbl |-> t, name |-> n, kind |-> k, ver |-> v]

PrimaryKeys == {Obj("t1", "t1_pkey", "p", 1), Obj("t2", "t2_pkey", "p", 1)}
Movable == {Obj("t1", "ia", "i", 1), Obj("t1", "ia", "i", 2), Obj("t2", "ia", "i", 1),
            Obj("t1", "ub", "u", 1), Obj("t2", "ub", "u", 1)}
Universe == PrimaryKeys \cup Movable
Names == {o.name : o \in Universe}

\* Relation names are unique inside one namespace.
ValidCatalog(c) == \A o1, o2 \in c : o1.name = o2.name => o1 = o2

-----------------------------------------------------------------------------
(* DDL text.  A statement is the record of the parts its text is built     *)
(* from, so two statements are the same text iff the records are equal.    *)

CreateDdl(o) ==
    IF o.kind = "i"
    THEN [verb |-> "CREATE INDEX", tbl |-> o.tbl, name |-> o.name, ver |-> o.ver]
    ELSE [verb |-> "ADD CONSTRAINT", tbl |-> o.tbl, name |-> o.name, ver |-> o.ver]

\* 'DROP INDEX ' || schemaname || '.' || indexname
DropIndexDdl(o) == [verb |-> "DROP INDEX", tbl |-> "", name |-> o.name, ver |-> 0]
\* 'ALTER TABLE ' || nspname || '.' || relname || ' DROP CONSTRAINT ' || conname
DropConstraintDdl(o) == [verb |-> "DROP CONSTRAINT", tbl |-> o.tbl, name |-> o.name, ver |-> 0]

DefRow(o, drop) ==
    [schemaname |-> Ns, tablename |-> o.tbl, indexname |-> o.name,
     create_ddl |-> CreateDdl(o), drop_ddl |-> drop]

\* A bug: the plain-index query forgets the primary-key constraints.
ExcludedContypesOnlyUnique == {"u"}

\* pc.contype IN ('p','u'): the pg_constraint rows that hide an index from
\* the plain-index query.
ExcludedContypes == {"p", "u"}

\* A bug: a table of exactly the threshold size counts as large.
ExceedsThresholdOrEquals(bytes) == bytes >= LargerThan

\* "AND pg_relation_size(...) > %s", in both queries.
ExceedsThreshold(bytes) == bytes > LargerThan

\* _get_index_constraint_defs(table, "index")
IndexDefs(cat, size, table) ==
    {DefRow(o, DropIndexDdl(o)) : o \in
        {pi \in cat : /\ pi.tbl = table
                      /\ ~ \E pc \in cat : /\ pc.tbl = pi.tbl
                                           /\ pc.name = pi.name
                                           /\ pc.kind \in ExcludedContypes
                      /\ ExceedsThreshold(size[table])}}

\* _get_index_constraint_defs(table, "constraint")
ConstraintDefs(cat, size, table) ==
    {DefRow(o, DropConstraintDdl(o)) : o \in
        {pc \in cat : /\ pc.tbl = table
                      /\ pc.kind = "u"
                      /\ ExceedsThreshold(size[table])}}

\* all_indexes = index_definitions + constraint_definitions
AllIndexes(cat, size, table) == IndexDefs(cat, size, table) \cup ConstraintDefs(cat, size, table)

-----------------------------------------------------------------------------
(* The Backup Store.                                                       *)

StoreRow(d, repl) ==
    [schemaname |-> d.schemaname, tablename |-> d.tablename, indexname |-> d.indexname,
     create_ddl |-> d.create_ddl, drop_ddl |-> d.drop_ddl, repl_name |-> repl]

\* A bug: the key of the table leaves indexname out.
ConflictsOnSchema(st, r) ==
    \E x \in st : /\ x.schemaname = r.schemaname
                  /\ x.repl_name = r.repl_name

\* ON CONFLICT (schemaname, indexname, repl_name)
Conflicts(st, r) ==
    \E x \in st : /\ x.schemaname = r.schemaname
                  /\ x.indexname = r.indexname
                  /\ x.repl_name = r.repl_name

\* A bug: the insert replaces the row it conflicts with (DO UPDATE).
InsertDefOverwrite(st, d) ==
    LET r == StoreRow(d, repl_name)
    IN  {x \in st : ~ (/\ x.schemaname = r.schemaname
                       /\ x.indexname = r.indexname
                       /\ x.repl_name = r.repl_name)} \cup {r}

\* INSERT ... ON CONFLICT (...) DO NOTHING, one definition
InsertDef(st, d) ==
    IF Conflicts(st, StoreRow(d, repl_name)) THEN st ELSE st \cup {StoreRow(d, repl_name)}

\* _store_index_defs: one insert per definition; the result does not depend
\* on the order because two definitions of one call never share a key.
RECURSIVE StoreIndexDefs(_, _)
StoreIndexDefs(st, defs) ==
    IF defs = {} THEN st
    ELSE LET d == CHOOSE x \in defs : TRUE
         IN  StoreIndexDefs(InsertDef(st, d), defs \ {d})

\* _check_num_indexes
CheckNumIndexes(st, schemaname, tablename) ==
    Cardinality({x \in st : /\ x.repl_name = repl_name
                            /\ x.schemaname = schemaname
                            /\ x.tablename = tablename})

-----------------------------------------------------------------------------
(* The secondary database executing one DDL statement.                     *)

NoDdl == [verb |-> "none", tbl |-> "", name |-> "", ver |-> 0]

\* The object a statement names, if the catalog holds it.
Target(cat, stmt) == {o \in cat : o.name = stmt.name}

\* A statement the code does not generate: DROP INDEX IF EXISTS, which
\* succeeds on an absent index.
DdlOkIfExists(cat, stmt) ==
    CASE stmt.verb = "DROP INDEX" ->
            Target(cat, stmt) = {} \/ \E o \in Target(cat, stmt) : o.kind = "i"
      [] stmt.verb = "DROP CONSTRAINT" ->
            \E o \in Target(cat, stmt) : o.tbl = stmt.tbl /\ o.kind \in {"p", "u"}
      [] stmt.verb \in {"CREATE INDEX", "ADD CONSTRAINT"} ->
            Target(cat, stmt) = {}
      [] OTHER -> FALSE

DdlOk(cat, stmt) ==
    CASE stmt.verb = "DROP INDEX" ->
            \* no IF EXISTS; an index owned by a constraint cannot be dropped
            \E o \in Target(cat, stmt) : o.kind = "i"
      [] stmt.verb = "DROP CONSTRAINT" ->
            \E o \in Target(cat, stmt) : o.tbl = stmt.tbl /\ o.kind \in {"p", "u"}
      [] stmt.verb \in {"CREATE INDEX", "ADD CONSTRAINT"} ->
            Target(cat, stmt) = {}
      [] OTHER -> FALSE

DdlApply(cat, stmt) ==
    CASE stmt.verb \in {"DROP INDEX", "DROP CONSTRAINT"} -> cat \ Target(cat, stmt)
      [] stmt.verb = "CREATE INDEX" -> cat \cup {Obj(stmt.tbl, stmt.name, "i", stmt.ver)}
      [] stmt.verb = "ADD CONSTRAINT" -> cat \cup {Obj(stmt.tbl, stmt.name, "u", stmt.ver)}
      [] OTHER -> cat

\* The column _execute_ddl selects.
DdlOf(row, mode) == IF mode = "recreate" THEN row.create_ddl ELSE row.drop_ddl

\* SELECT ... FROM manage_indexes.index_definitions WHERE repl_name = %s
FetchRows(st) == {x \in st : x.repl_name = repl_name}

\* The orders in which a SELECT without ORDER BY may return a set of rows.
Orders(S) == {q \in [1..Cardinality(S) -> S] : \A i, j \in DOMAIN q : q[i] = q[j] => i = j}

\* A bug: conn.commit() comes after the loop, so closing the connection on a
\* failure rolls every statement of the run back.
AfterFailureNothingCommitted(cat0, cat) == cat0

\* What the secondary holds when a statement has failed and the connection
\* is closed: conn.commit() ran inside the loop, after every statement.
AfterFailure(cat0, cat) == cat

\* A bug: a failing statement is skipped and the loop goes on.
ExecIterSkipFailed(cat, q, mode) ==
    LET stmt == DdlOf(Head(q), mode)
    IN  IF DdlOk(cat, stmt)
        THEN [cat |-> DdlApply(cat, stmt), q |-> Tail(q), pc |-> "exec", res |-> "running"]
        ELSE [cat |-> cat, q |-> Tail(q), pc |-> "exec", res |-> "running"]

\* One iteration of the loop of _execute_ddl on the first fetched row:
\* execute and commit, or close the connection and re-raise.
ExecIter(cat, q, mode) ==
    LET stmt == DdlOf(Head(q), mode)
    IN  IF DdlOk(cat, stmt)
        THEN [cat |-> DdlApply(cat, stmt), q |-> Tail(q), pc |-> "exec", res |-> "running"]
        ELSE [cat |-> cat, q |-> q, pc |-> "done", res |-> "ddl_error"]

-----------------------------------------------------------------------------
(* Indexes.drop, Indexes.recreate and the environment of the index         *)
(* workflow.                                                               *)

\* No exception has been raised.
NoError == [expected |-> 0, stored |-> 0]

\* A bug: the message reports the stored count in both places.
GateErrorStoredTwice(expected, stored) == [expected |-> stored, stored |-> stored]

\* drop(): the Exception of the failed gate, "Tried to store {expected}
\* index(es) ... but {stored} index definition(s) were stored instead".
GateError(expected, stored) == [expected |-> expected, stored |-> stored]

NoCapture == [n \in Names |-> NoDdl]

IdxHistoryReset ==
    /\ issued' = <<>>
    /\ discovered' = {}
    /\ mismatch' = FALSE

\* drop(): tables = self._find_objects("r", self.repl_objects)
DropBegin ==
    /\ ipc = "idle"
    /\ ipc' = "drop_tables"
    /\ todo' \in Orders(Tables)
    /\ safe_to_drop' = FALSE
    /\ imode' = "drop"
    /\ ires' = "running"
    /\ from_empty' = (store = {})
    /\ UNCHANGED <<pcat, relsize, scat, store, ddlq, issued, discovered, mismatch, captured, iconn, scat0, ierror>>
    /\ UNCHANGED prev_drop_ok
    /\ UNCHANGED notIdx

\* drop(): one iteration of "for table in tables".
DropTable ==
    /\ ipc = "drop_tables"
    /\ todo # <<>>
    /\ LET table == Head(todo)
           all_indexes == AllIndexes(pcat, relsize, table)
           stored == StoreIndexDefs(store, all_indexes)
           expected_indexes_count == Cardinality(all_indexes)
           stored_indexes_count == CheckNumIndexes(stored, Ns, table)
       IN  /\ discovered' = discovered \cup all_indexes
           /\ IF all_indexes # {}
              THEN /\ store' = stored
                   /\ mismatch' = (mismatch \/ expected_indexes_count # stored_indexes_count)
                   /\ IF expected_indexes_count = stored_indexes_count
                      THEN /\ safe_to_drop' = TRUE
                           /\ todo' = Tail(todo)
                           /\ UNCHANGED <<ipc, ires, ierror>>
                      ELSE /\ ipc' = "done"
                           /\ ires' = "gate_error"
                           /\ ierror' = GateError(expected_indexes_count, stored_indexes_count)
                           /\ UNCHANGED <<safe_to_drop, todo>>
              ELSE /\ mismatch' = (mismatch \/ CheckNumIndexes(store, Ns, table) # 0)
                   /\ todo' = Tail(todo)
                   /\ UNCHANGED <<store, safe_to_drop, ipc, ires, ierror>>
    /\ UNCHANGED <<pcat, relsize, scat, imode, ddlq, issued, captured, iconn, scat0>>
    /\ UNCHANGED <<prev_drop_ok, from_empty>>
    /\ UNCHANGED notIdx

\* drop(): an insert of _store_index_defs raises, or is interrupted with
\* Ctrl-C, after some definitions of the table were committed.  The handler
\* "except Exception" closes conn; Ctrl-C passes it by.
DropTableStoreFails ==
    /\ ipc = "drop_tables"
    /\ todo # <<>>
    /\ LET all_indexes == AllIndexes(pcat, relsize, Head(todo))
       IN  /\ all_indexes # {}
           /\ \E done \in SUBSET all_indexes :
                 /\ done # all_indexes
                 /\ store' = StoreIndexDefs(store, done)
           /\ discovered' = discovered \cup all_indexes
    /\ ipc' = "done"
    /\ \/ ires' = "error" /\ iconn' = "none"
       \/ ires' = "interrupted" /\ iconn' = "bucardo"
    /\ UNCHANGED <<pcat, relsize, scat, todo, safe_to_drop, imode, ddlq, issued, mismatch, captured, scat0, ierror>>
    /\ UNCHANGED <<prev_drop_ok, from_empty>>
    /\ UNCHANGED notIdx

\* A bug: _execute_ddl deletes the row of a definition it has recreated.
StoreAfterDdlForgetsRecreated(st, row, mode) == IF mode = "recreate" THEN st \ {row} ELSE st

\* _execute_ddl only selects from manage_indexes.index_definitions: executing
\* the DDL of a row leaves the table as it is.
StoreAfterDdl(st, row, mode) == st

\* A bug: _execute_ddl is called inside the loop, after the first table.
LoopIsOverAfterFirstTable(tables) == Len(tables) < Cardinality(Tables)

\* drop(): "for table in tables" has gone through every table.
LoopIsOver(tables) == tables = <<>>

\* drop(): after the loop, "if safe_to_drop: self._execute_ddl('drop')".
DropAfterLoop ==
    /\ ipc = "drop_tables"
    /\ LoopIsOver(todo)
    /\ IF safe_to_drop
       THEN ipc' = "fetch" /\ UNCHANGED ires
       ELSE ipc' = "done" /\ ires' = "ok"
    /\ UNCHANGED <<pcat, relsize, scat, store, todo, safe_to_drop, imode, ddlq, issued,
                   discovered, mismatch, captured, iconn, scat0, ierror>>
    /\ UNCHANGED <<prev_drop_ok, from_empty>>
    /\ UNCHANGED notIdx

\* recreate(): self._execute_ddl("recreate")
RecreateBegin ==
    /\ ipc = "idle"
    /\ ipc' = "fetch"
    /\ imode' = "recreate"
    /\ ires' = "running"
    /\ UNCHANGED <<pcat, relsize, scat, store, todo, safe_to_drop, ddlq, issued,
                   discovered, mismatch, captured, iconn, scat0, ierror>>
    /\ UNCHANGED <<prev_drop_ok, from_empty>>
    /\ UNCHANGED notIdx

\* _execute_ddl: retrieve the DDL from bucardo.
ExecFetch ==
    /\ ipc = "fetch"
    /\ ddlq' \in Orders(FetchRows(store))
    /\ ipc' = "exec"
    /\ iconn' = "secondary"
    /\ scat0' = scat
    /\ UNCHANGED <<pcat, relsize, scat, store, todo, safe_to_drop, imode, issued,
                   discovered, mismatch, captured, ires, ierror>>
    /\ UNCHANGED <<prev_drop_ok, from_empty>>
    /\ UNCHANGED notIdx

\* The create DDL this run discovered for a name (none for a stale row).
CapturedNow(name) ==
    IF \E d \in discovered : d.indexname = name
    THEN (CHOOSE d \in discovered : d.indexname = name).create_ddl
    ELSE captured[name]

\* _execute_ddl: "for index in index_definitions: cur.execute(index[0]); conn.commit()"
ExecDdl ==
    /\ ipc = "exec"
    /\ ddlq # <<>>
    /\ LET r == ExecIter(scat, ddlq, imode)
           row == Head(ddlq)
       IN  /\ scat' = IF r.pc = "done" THEN AfterFailure(scat0, r.cat) ELSE r.cat
           /\ ddlq' = r.q
           /\ store' = StoreAfterDdl(store, row, imode)
           /\ ipc' = r.pc
           /\ ires' = r.res
           /\ iconn' = IF r.pc = "done" THEN "none" ELSE iconn
           /\ issued' = Append(issued, DdlOf(row, imode))
           /\ captured' = IF imode = "drop" /\ r.cat # scat
                           THEN [captured EXCEPT ![row.indexname] = CapturedNow(row.indexname)]
                           ELSE captured
    /\ UNCHANGED <<pcat, relsize, todo, safe_to_drop, imode, discovered, mismatch, scat0, ierror>>
    /\ UNCHANGED <<prev_drop_ok, from_empty>>
    /\ UNCHANGED notIdx

\* _execute_ddl: the loop is over; print(success_message).
ExecEnd ==
    /\ ipc = "exec"
    /\ ddlq = <<>>
    /\ ipc' = "done"
    /\ ires' = "ok"
    /\ iconn' = "none"
    /\ UNCHANGED <<pcat, relsize, scat, store, todo, safe_to_drop, imode, ddlq, issued,
                   discovered, mismatch, captured, scat0, ierror>>
    /\ UNCHANGED <<prev_drop_ok, from_empty>>
    /\ UNCHANGED notIdx

\* A connection failure (psycopg2.connect or a query raising) or Ctrl-C ends
\* the operation where it stands; committed statements stay committed.  An
\* exception closes conn ("except Exception" or "finally"); Ctrl-C inside
\* _execute_ddl passes "except Exception" by, and conn stays as it is.
IdxAbort ==
    /\ ipc \in {"drop_tables", "fetch", "exec"}
    /\ ipc' = "done"
    /\ \/ ires' = "error" /\ iconn' = "none"
       \/ /\ ires' = "interrupted"
          /\ iconn' \in CASE ipc = "exec" -> {iconn}
                          [] ipc = "fetch" -> {"none", "bucardo"}
                          [] OTHER -> {"none"}
    /\ UNCHANGED <<pcat, relsize, scat, store, todo, safe_to_drop, imode, ddlq, issued,
                   discovered, mismatch, captured, scat0, ierror>>
    /\ UNCHANGED <<prev_drop_ok, from_empty>>
    /\ UNCHANGED notIdx

\* The operation has returned to the wrapper; the next command starts afresh.
IdxReturn ==
    /\ ipc = "done"
    /\ ipc' = "idle"
    /\ todo' = <<>>
    /\ ddlq' = <<>>
    /\ safe_to_drop' = FALSE
    /\ imode' = "none"
    /\ ires' = "none"
    /\ iconn' = "none"
    /\ scat0' = scat
    /\ ierror' = NoError
    /\ IdxHistoryReset
    /\ UNCHANGED <<pcat, relsize, scat, store, captured>>
    /\ prev_drop_ok' = (imode = "drop" /\ ires = "ok")
    /\ from_empty' = FALSE
    /\ UNCHANGED notIdx

\* Between two operations the primary's schema changes: an index or unique
\* constraint is dropped or created (the catalog is read afresh by every
\* query of the workflow).
SchemaChange ==
    /\ ipc = "idle"
    /\ \/ \E o \in pcat \cap Movable : pcat' = pcat \ {o}
       \/ \E o \in Movable : /\ \A x \in pcat : x.name # o.name
                              /\ pcat' = pcat \cup {o}
    /\ UNCHANGED <<relsize, scat, store, ipc, todo, safe_to_drop, imode, ddlq, issued,
                   discovered, mismatch, captured, ires, iconn, scat0, ierror>>
    /\ prev_drop_ok' = FALSE
    /\ UNCHANGED from_empty
    /\ UNCHANGED notIdx

\* Between two operations a table grows or shrinks.
Resize ==
    /\ ipc = "idle"
    /\ \E t \in Tables, s \in Sizes : /\ relsize[t] # s
                                       /\ relsize' = [relsize EXCEPT ![t] = s]
    /\ UNCHANGED <<pcat, scat, store, ipc, todo, safe_to_drop, imode, ddlq, issued,
                   discovered, mismatch, captured, ires, iconn, scat0, ierror>>
    /\ prev_drop_ok' = FALSE
    /\ UNCHANGED from_empty
    /\ UNCHANGED notIdx

IdxInit ==
    /\ pcat \in {PrimaryKeys \cup m : m \in {x \in SUBSET Movable : ValidCatalog(x)}}
    /\ relsize \in [Tables -> Sizes]
    /\ scat = pcat
    /\ store = {}
    /\ ipc = "idle"
    /\ todo = <<>>
    /\ safe_to_drop = FALSE
    /\ imode = "none"
    /\ ddlq = <<>>
    /\ issued = <<>>
    /\ discovered = {}
    /\ mismatch = FALSE
    /\ captured = NoCapture
    /\ ires = "none"
    /\ iconn = "none"
    /\ scat0 = scat
    /\ ierror = NoError
    /\ prev_drop_ok = FALSE
    /\ from_empty = FALSE

IdxNext ==
    \/ DropBegin
    \/ DropTable
    \/ DropTableStoreFails
    \/ DropAfterLoop
    \/ RecreateBegin
    \/ ExecFetch
    \/ ExecDdl
    \/ ExecEnd
    \/ IdxAbort
    \/ IdxReturn
    \/ SchemaChange
    \/ Resize

-----------------------------------------------------------------------------
(* The trigger state coordinator (plugins/bucardo) and the retry governor  *)
(* (plugins/retry).                                                        *)

TrigTables == {"t1", "t2"}
\* pg_class.relkind of the replicated tables.
RelKind == [t \in TrigTables |-> "r"]

\* _find_objects(datatype, replication_objects)
FindObjects(datatype) == {t \in TrigTables : RelKind[t] = datatype}

\* Bucardo puts three triggers on each table, with predictable names.
Delta == "bucardo_delta"
Kick == "bucardo_kick_repl1"
Trunc == "bucardo_note_trunc_repl1"
Triggers == <<Delta, Kick, Trunc>>
Trigs == {Delta, Kick, Trunc}

\* tgenabled: 'O' fires in origin mode (the state a new trigger has),
\* 'D' disabled, 'A' always; "absent": no such trigger on the table.
NoTriggers == [t \in TrigTables |-> [k \in Trigs |-> "absent"]]

OtherRepl == "repl2"

\* _toggle_triggers: the tgenabled value asked for.
Tgenabled(enable_or_disable) == IF enable_or_disable = "disable" THEN "D" ELSE "A"

\* A bug: a table without the trigger counts as one to alter.
TriggerNeedsTogglingWhenMissing(cat, table, trigger, tgenabled) ==
    cat[table][trigger] # tgenabled

\* A bug: the catalog lookup forgets "AND pt.tgenabled <> %s".
TriggerNeedsTogglingAnyState(cat, table, trigger, tgenabled) ==
    cat[table][trigger] # "absent"

\* _toggle_triggers: "SELECT TRUE FROM pg_trigger ... AND pt.tgenabled <> %s"
TriggerNeedsToggling(cat, table, trigger, tgenabled) ==
    cat[table][trigger] # "absent" /\ cat[table][trigger] # tgenabled

\* A bug: the pass that disables kicking names the delta trigger.
ManagePassesDisableDelta(async, casc) ==
    (IF async THEN <<[mode |-> "disable", trigger |-> Delta]>> ELSE <<>>)
    \o (IF casc
        THEN <<[mode |-> "enable always", trigger |-> Trunc]>>
             \o (IF ~async THEN <<[mode |-> "enable always", trigger |-> Kick]>> ELSE <<>>)
        ELSE <<>>)

\* A bug: the truncate trigger is enabled always whatever the cascade flag.
ManagePassesTruncUnconditional(async, casc) ==
    (IF async THEN <<[mode |-> "disable", trigger |-> Kick]>> ELSE <<>>)
    \o <<[mode |-> "enable always", trigger |-> Trunc]>>
    \o (IF casc /\ ~async THEN <<[mode |-> "enable always", trigger |-> Kick]>> ELSE <<>>)

\* A bug: the kick trigger is not enabled always on a cascading primary.
ManagePassesNoKickAlways(async, casc) ==
    (IF async THEN <<[mode |-> "disable", trigger |-> Kick]>> ELSE <<>>)
    \o (IF casc THEN <<[mode |-> "enable always", trigger |-> Trunc]>> ELSE <<>>)

\* _manage_triggers: the calls of _toggle_triggers it makes, in order.
ManagePasses(async, casc) ==
    (IF async THEN <<[mode |-> "disable", trigger |-> Kick]>> ELSE <<>>)
    \o (IF casc
        THEN <<[mode |-> "enable always", trigger |-> Trunc]>>
             \o (IF ~async THEN <<[mode |-> "enable always", trigger |-> Kick]>> ELSE <<>>)
        ELSE <<>>)

\* A bug: the ALTER is executed but never committed.
ToggleIterNoCommit(cat, q, pass, outcome) ==
    LET table == Head(q)
        want == Tgenabled(pass.mode)
    IN  IF ~TriggerNeedsToggling(cat, table, pass.trigger, want)
        THEN [tg |-> cat, q |-> Tail(q), pc |-> "toggle_loop", res |-> "running",
              alter |-> 0, diag |-> {}]
        ELSE IF outcome = "ok"
        THEN [tg |-> cat, q |-> Tail(q),
              pc |-> "toggle_loop", res |-> "running", alter |-> 1, diag |-> {}]
        ELSE [tg |-> cat, q |-> Tail(q), pc |-> "toggle_loop", res |-> "running",
              alter |-> 1, diag |-> {<<table, pass.trigger>>}]

\* A bug: LockNotAvailable is reported and re-raised like any other error.
ToggleIterLockAborts(cat, q, pass, outcome) ==
    LET table == Head(q)
        want == Tgenabled(pass.mode)
    IN  IF ~TriggerNeedsToggling(cat, table, pass.trigger, want)
        THEN [tg |-> cat, q |-> Tail(q), pc |-> "toggle_loop", res |-> "running",
              alter |-> 0, diag |-> {}]
        ELSE IF outcome = "ok"
        THEN [tg |-> [cat EXCEPT ![table][pass.trigger] = want], q |-> Tail(q),
              pc |-> "toggle_loop", res |-> "running", alter |-> 1, diag |-> {}]
        ELSE [tg |-> cat, q |-> q, pc |-> "done", res |-> "error",
              alter |-> 1, diag |-> {<<table, pass.trigger>>}]

\* _toggle_triggers: one iteration of "for table in tables".  outcome is
\* what the ALTER does when it is issued: "ok", or "lock" for
\* psycopg2.errors.LockNotAvailable.
ToggleIter(cat, q, pass, outcome) ==
    LET table == Head(q)
        want == Tgenabled(pass.mode)
    IN  IF ~TriggerNeedsToggling(cat, table, pass.trigger, want)
        THEN [tg |-> cat, q |-> Tail(q), pc |-> "toggle_loop", res |-> "running",
              alter |-> 0, diag |-> {}]
        ELSE IF outcome = "ok"
        THEN [tg |-> [cat EXCEPT ![table][pass.trigger] = want], q |-> Tail(q),
              pc |-> "toggle_loop", res |-> "running", alter |-> 1, diag |-> {}]
        ELSE [tg |-> cat, q |-> Tail(q), pc |-> "toggle_loop", res |-> "running",
              alter |-> 1, diag |-> {<<table, pass.trigger>>}]

\* A bug: after a lock failure the loop leaves the table, skipping the
\* triggers of that table it has not tried yet.
DropTrigIterLockLeavesTable(cat, q, outcome) ==
    LET table == Head(q)[1]
        trigger == Head(q)[2]
        OtherTable(pair) == pair[1] # table
    IN  IF outcome = "ok"
        THEN [tg |-> [cat EXCEPT ![table][trigger] = "absent"], q |-> Tail(q), diag |-> {}]
        ELSE [tg |-> cat, q |-> SelectSeq(Tail(q), OtherTable), diag |-> {<<table, trigger>>}]

\* drop_triggers: one "DROP TRIGGER IF EXISTS" of the double loop.
DropTrigIter(cat, q, outcome) ==
    LET table == Head(q)[1]
        trigger == Head(q)[2]
    IN  IF outcome = "ok"
        THEN [tg |-> [cat EXCEPT ![table][trigger] = "absent"], q |-> Tail(q), diag |-> {}]
        ELSE [tg |-> cat, q |-> Tail(q), diag |-> {<<table, trigger>>}]

\* drop_triggers: "for table in tables: for trigger in triggers".
RECURSIVE DropPairs(_)
DropPairs(tables) ==
    IF tables = <<>> THEN <<>>
    ELSE <<<<Head(tables), Triggers[1]>>, <<Head(tables), Triggers[2]>>,
           <<Head(tables), Triggers[3]>>>> \o DropPairs(Tail(tables))

\* The replication engine (bucardo add sync / bucardo.validate_sync) creating
\* the missing triggers of the tables it gets a lock on.
EngineCreateTriggers(cat, created) ==
    [t \in TrigTables |->
        IF t \in created
        THEN [k \in Trigs |-> IF cat[t][k] = "absent" THEN "O" ELSE cat[t][k]]
        ELSE cat[t]]

\* A bug: the sync check never finds a sync.
CheckForSyncsNever(s) == FALSE

\* Retry._check_for_syncs: 'SELECT * FROM bucardo.sync LIMIT 1'
CheckForSyncs(s) == s # {}

\* Where an operation goes on after its trigger work.
\* A bug: the Retry methods return without the second _set_timeout call.
AfterTriggersNoReset(op) == "finish"

\* Where the operation goes on when Bucardo's method has returned.
AfterTriggers(op) == IF op \in {"retry_add", "retry_drop"} THEN "ra_reset" ELSE "finish"

HistoryIdle ==
    /\ alters = 0
    /\ skipped = {}
    /\ tg0 = NoTriggers
    /\ again = "none"
    /\ syncs0 = {}
    /\ addSyncCalls = 0
    /\ validated = FALSE
    /\ own_timeout0 = FALSE

\* The wrapper starts an operation.
Begin(op, pc) ==
    /\ tpc = "idle"
    /\ top' = op
    /\ tpc' = pc
    /\ tres' = "running"
    /\ syncs0' = syncs
    /\ own_timeout0' = (lock_timeout = "5s")
    /\ UNCHANGED <<cfgv, dbv, passes, tq, tconn, alters, skipped, tg0, again, prevM, addSyncCalls, validated>>
    /\ UNCHANGED notTrig

\* Retry.add_triggers
RetryAddTriggers == Begin("retry_add", "ra_set")
\* Retry.drop_triggers
RetryDropTriggers == Begin("retry_drop", "ra_set")
\* Bucardo.add_triggers
BucardoAddTriggers == Begin("bucardo_add", "ba_addsync")
\* Bucardo.drop_triggers
BucardoDropTriggers == Begin("bucardo_drop", "drop_find")

\* Retry: self._set_timeout(self.primary_user, self.timeout)
SetTimeout ==
    /\ tpc = "ra_set"
    /\ lock_timeout' = "timeout"
    /\ tpc' = IF top = "retry_add" THEN "ra_check" ELSE "drop_find"
    /\ UNCHANGED <<cfgv, tg, syncs, top, passes, tq, tres, tconn, hist>>
    /\ UNCHANGED own_timeout0
    /\ UNCHANGED notTrig

\* Retry.add_triggers: sync_already_added = self._check_for_syncs()
CheckSyncs ==
    /\ tpc = "ra_check"
    /\ tpc' = IF CheckForSyncs(syncs) THEN "ra_validate" ELSE "ba_addsync"
    /\ UNCHANGED <<cfgv, dbv, top, passes, tq, tres, tconn, hist>>
    /\ UNCHANGED own_timeout0
    /\ UNCHANGED notTrig

\* Retry.add_triggers: SELECT bucardo.validate_sync(repl_name, 0)
ValidateSync ==
    /\ tpc = "ra_validate"
    /\ \E created \in SUBSET TrigTables :
          /\ tg' = IF repl_name \in syncs THEN EngineCreateTriggers(tg, created) ELSE tg
          /\ prevM' = IF tg' = tg THEN prevM ELSE "none"
    /\ validated' = TRUE
    /\ tpc' = "manage"
    /\ UNCHANGED <<cfgv, syncs, lock_timeout, top, passes, tq, tres, tconn,
                   alters, skipped, tg0, again, syncs0, addSyncCalls>>
    /\ UNCHANGED own_timeout0
    /\ UNCHANGED notTrig

\* Bucardo.add_triggers: os.system("bucardo ... add sync ...").  The engine
\* refuses a name that is registered; otherwise it registers the sync and
\* creates the triggers, or fails and changes nothing.  Its exit status is
\* not looked at.
AddSync ==
    /\ tpc = "ba_addsync"
    /\ addSyncCalls' = addSyncCalls + 1
    /\ \/ UNCHANGED <<tg, syncs, prevM>>
       \/ /\ repl_name \notin syncs
          /\ syncs' = syncs \cup {repl_name}
          /\ \E created \in SUBSET TrigTables :
                /\ tg' = EngineCreateTriggers(tg, created)
                /\ prevM' = IF tg' = tg THEN prevM ELSE "none"
    /\ tpc' = "manage"
    /\ UNCHANGED <<cfgv, lock_timeout, top, passes, tq, tres, tconn,
                   alters, skipped, tg0, again, syncs0, validated>>
    /\ UNCHANGED own_timeout0
    /\ UNCHANGED notTrig

\* _manage_triggers: read the flags.
ManageBegin ==
    /\ tpc = "manage"
    /\ passes' = ManagePasses(async_kick, cascade)
    /\ tpc' = IF passes' = <<>> THEN "manage_end" ELSE "toggle_find"
    /\ alters' = 0
    /\ tg0' = tg
    /\ again' = prevM
    /\ prevM' = "none"
    /\ UNCHANGED <<cfgv, dbv, top, tq, tres, tconn, skipped, syncs0, addSyncCalls, validated>>
    /\ UNCHANGED own_timeout0
    /\ UNCHANGED notTrig

\* _toggle_triggers: tables = self._find_objects("r", ...); connect.
ToggleBegin ==
    /\ tpc = "toggle_find"
    /\ tq' \in Orders(FindObjects("r"))
    /\ tpc' = "toggle_loop"
    /\ tconn' = "primary"
    /\ UNCHANGED <<cfgv, dbv, top, passes, tres, hist>>
    /\ UNCHANGED own_timeout0
    /\ UNCHANGED notTrig

\* _toggle_triggers: one table.
ToggleTable ==
    /\ tpc = "toggle_loop"
    /\ tq # <<>>
    /\ \E outcome \in {"ok", "lock"} :
          LET r == ToggleIter(tg, tq, Head(passes), outcome)
          IN  /\ tg' = r.tg
              /\ tq' = r.q
              /\ tpc' = r.pc
              /\ tres' = r.res
              /\ alters' = alters + r.alter
              /\ skipped' = skipped \cup r.diag
    /\ UNCHANGED <<cfgv, syncs, lock_timeout, top, passes, tconn,
                   tg0, again, prevM, syncs0, addSyncCalls, validated>>
    /\ UNCHANGED own_timeout0
    /\ UNCHANGED notTrig

\* _toggle_triggers: conn.close(); print("Triggers toggled."), and back in
\* _manage_triggers.
ToggleEnd ==
    /\ tpc = "toggle_loop"
    /\ tq = <<>>
    /\ passes' = Tail(passes)
    /\ tpc' = IF passes' = <<>> THEN "manage_end" ELSE "toggle_find"
    /\ tconn' = "none"
    /\ UNCHANGED <<cfgv, dbv, top, tq, tres, hist>>
    /\ UNCHANGED own_timeout0
    /\ UNCHANGED notTrig

\* _manage_triggers returns.
ManageEnd ==
    /\ tpc = "manage_end"
    /\ prevM' = IF skipped = {} THEN "clean" ELSE "lockfail"
    /\ tpc' = AfterTriggers(top)
    /\ UNCHANGED <<cfgv, dbv, top, passes, tq, tres, tconn,
                   alters, skipped, tg0, again, syncs0, addSyncCalls, validated>>
    /\ UNCHANGED own_timeout0
    /\ UNCHANGED notTrig

\* Bucardo.drop_triggers: tables = self._find_objects("r", ...); connect.
DropTrigBegin ==
    /\ tpc = "drop_find"
    /\ \E order \in Orders(FindObjects("r")) : tq' = DropPairs(order)
    /\ tpc' = "drop_loop"
    /\ tconn' = "primary"
    /\ UNCHANGED <<cfgv, dbv, top, passes, tres, hist>>
    /\ UNCHANGED own_timeout0
    /\ UNCHANGED notTrig

\* Bucardo.drop_triggers: one trigger of one table.
DropTrig ==
    /\ tpc = "drop_loop"
    /\ tq # <<>>
    /\ \E outcome \in {"ok", "lock"} :
          LET r == DropTrigIter(tg, tq, outcome)
          IN  /\ tg' = r.tg
              /\ tq' = r.q
              /\ skipped' = skipped \cup r.diag
              /\ prevM' = IF r.tg = tg THEN prevM ELSE "none"
    /\ UNCHANGED <<cfgv, syncs, lock_timeout, tpc, top, passes, tres, tconn,
                   alters, tg0, again, syncs0, addSyncCalls, validated>>
    /\ UNCHANGED own_timeout0
    /\ UNCHANGED notTrig

\* Bucardo.drop_triggers: conn.close(); print("Triggers dropped.")
DropTrigEnd ==
    /\ tpc = "drop_loop"
    /\ tq = <<>>
    /\ tpc' = AfterTriggers(top)
    /\ tconn' = "none"
    /\ UNCHANGED <<cfgv, dbv, top, passes, tq, tres, hist>>
    /\ UNCHANGED own_timeout0
    /\ UNCHANGED notTrig

\* Retry: self._set_timeout(self.primary_user, 'DEFAULT')
ResetTimeout ==
    /\ tpc = "ra_reset"
    /\ lock_timeout' = "DEFAULT"
    /\ tpc' = "finish"
    /\ UNCHANGED <<cfgv, tg, syncs, top, passes, tq, tres, tconn, hist>>
    /\ UNCHANGED own_timeout0
    /\ UNCHANGED notTrig

\* The operation returns normally.
Finish ==
    /\ tpc = "finish"
    /\ tpc' = "done"
    /\ tres' = "ok"
    /\ UNCHANGED <<cfgv, dbv, top, passes, tq, tconn, hist>>
    /\ UNCHANGED own_timeout0
    /\ UNCHANGED notTrig

\* A bug: the handler prints the error and lets the loop go on.
RaiseSwallowed(pc) == pc

\* "raise": the exception leaves the operation; nothing after the failing
\* statement runs.
Raise(pc) == "done"

\* An exception that the operation re-raises (a connection failure, an error
\* of a query or of the engine call) or Ctrl-C ends the operation where it
\* stands: nothing after the failing statement runs.  The loops close conn
\* in "except Exception", which a KeyboardInterrupt does not enter.
TrigAbort ==
    /\ tpc \notin {"idle", "done", "finish"}
    /\ tpc' = Raise(tpc)
    /\ \/ tres' = "error" /\ tconn' = "none"
       \/ tres' = "interrupted" /\ UNCHANGED tconn
    /\ UNCHANGED <<cfgv, dbv, top, passes, tq, hist>>
    /\ UNCHANGED own_timeout0
    /\ UNCHANGED notTrig

\* Back at the wrapper's prompt.
TrigReturn ==
    /\ tpc = "done"
    /\ tpc' = "idle"
    /\ top' = "none"
    /\ tres' = "none"
    /\ passes' = <<>>
    /\ tq' = <<>>
    /\ tconn' = "none"
    /\ alters' = 0
    /\ skipped' = {}
    /\ tg0' = NoTriggers
    /\ again' = "none"
    /\ syncs0' = {}
    /\ addSyncCalls' = 0
    /\ validated' = FALSE
    /\ own_timeout0' = FALSE
    /\ UNCHANGED <<cfgv, dbv, prevM>>
    /\ UNCHANGED notTrig

\* Between two operations the operator edits the topology flags of the
\* config file.
ChangeConfig ==
    /\ tpc = "idle"
    /\ \/ cascade' = ~cascade /\ UNCHANGED async_kick
       \/ async_kick' = ~async_kick /\ UNCHANGED cascade
    /\ prevM' = "none"
    /\ UNCHANGED <<dbv, ctl, alters, skipped, tg0, again, syncs0, addSyncCalls, validated>>
    /\ UNCHANGED own_timeout0
    /\ UNCHANGED notTrig

TrigInit ==
    /\ cascade \in BOOLEAN
    /\ async_kick \in BOOLEAN
    /\ tg = NoTriggers
    /\ syncs \in {{}, {OtherRepl}}
    /\ lock_timeout = "DEFAULT"
    /\ tpc = "idle"
    /\ top = "none"
    /\ passes = <<>>
    /\ tq = <<>>
    /\ tres = "none"
    /\ tconn = "none"
    /\ prevM = "none"
    /\ HistoryIdle

TrigNext ==
    \/ RetryAddTriggers
    \/ RetryDropTriggers
    \/ BucardoAddTriggers
    \/ BucardoDropTriggers
    \/ SetTimeout
    \/ CheckSyncs
    \/ ValidateSync
    \/ AddSync
    \/ ManageBegin
    \/ ToggleBegin
    \/ ToggleTable
    \/ ToggleEnd
    \/ ManageEnd
    \/ DropTrigBegin
    \/ DropTrig
    \/ DropTrigEnd
    \/ ResetTimeout
    \/ Finish
    \/ TrigAbort
    \/ TrigReturn
    \/ ChangeConfig

\* Retry.add_triggers run again and again by the operator, the flags left as
\* they are, every run returning normally.
ConvergeInit ==
    /\ cascade \in BOOLEAN
    /\ async_kick \in BOOLEAN
    /\ tg = NoTriggers
    /\ syncs = {}
    /\ lock_timeout = "DEFAULT"
    /\ tpc = "idle"
    /\ top = "none"
    /\ passes = <<>>
    /\ tq = <<>>
    /\ tres = "none"
    /\ tconn = "none"
    /\ prevM = "none"
    /\ HistoryIdle

ConvergeNext ==
    \/ RetryAddTriggers
    \/ SetTimeout
    \/ CheckSyncs
    \/ ValidateSync
    \/ AddSync
    \/ ManageBegin
    \/ ToggleBegin
    \/ ToggleTable
    \/ ToggleEnd
    \/ ManageEnd
    \/ ResetTimeout
    \/ Finish
    \/ TrigReturn

\* The ALTER of trigger k on table t gets its lock: the iteration on t in
\* the pass of k goes by without a "Could not modify" diagnostic.
LockAvailable(t, k) ==
    /\ ToggleTable
    /\ Head(tq) = t
    /\ Head(passes).trigger = k
    /\ skipped' = skipped

\* The operator keeps running the command, and for every table and trigger
\* the lock is there in one run or another.
ConvergeFairness ==
    /\ WF_vars(ConvergeNext)
    /\ \A t \in TrigTables : \A k \in Trigs : SF_vars(LockAvailable(t, k))

\* The Retry commands on a role that may carry a lock_timeout of its own.
RetryInit ==
    /\ cascade \in BOOLEAN
    /\ async_kick \in BOOLEAN
    /\ tg = NoTriggers
    /\ syncs \in {{}, {OtherRepl}}
    /\ lock_timeout \in {"DEFAULT", "5s"}
    /\ tpc = "idle"
    /\ top = "none"
    /\ passes = <<>>
    /\ tq = <<>>
    /\ tres = "none"
    /\ tconn = "none"
    /\ prevM = "none"
    /\ HistoryIdle

RetryNext ==
    \/ RetryAddTriggers
    \/ RetryDropTriggers
    \/ SetTimeout
    \/ CheckSyncs
    \/ ValidateSync
    \/ AddSync
    \/ ManageBegin
    \/ ToggleBegin
    \/ ToggleTable
    \/ ToggleEnd
    \/ ManageEnd
    \/ DropTrigBegin
    \/ DropTrig
    \/ DropTrigEnd
    \/ ResetTimeout
    \/ Finish
    \/ TrigAbort
    \/ TrigReturn

-----------------------------------------------------------------------------
(* The configuration: Plugin._set_inheritable_params, Indexes.__init__ and *)
(* the copy mode of Bucardo.add_triggers.                                   *)

\* Values of a replication_objects setting; "absent": the key is not there.
Filters == {"filter_a", "filter_b", "filter_empty_lists"}
MaybeFilter == Filters \cup {"absent"}

\* cfg["indexes"]: the section may be missing from the file altogether.
NoSection == [present |-> FALSE, replication_objects |-> "absent", larger_than |-> "absent"]
IndexesSections ==
    {NoSection} \cup [present : {TRUE}, replication_objects : MaybeFilter,
                      larger_than : {"absent", "8 MB"}]

\* Values of cfg["bucardo"]["copy_data"].
CopyDataValues == {"never", "always", "empty", "sometimes", "null"}

\* Plugin._set_inheritable_params(plugin_class): self.cfg[plugin_class] is
\* subscripted first, which raises KeyError when the file has no such section.
SetInheritableParams(section, bucardo) ==
    IF ~section.present
    THEN [res |-> "KeyError", section |-> section, repl_objects |-> "unset"]
    ELSE IF section.replication_objects = "absent" /\ bucardo.replication_objects # "absent"
    THEN [res |-> "ok",
          section |-> [section EXCEPT !.replication_objects = bucardo.replication_objects],
          repl_objects |-> bucardo.replication_objects]
    ELSE IF section.replication_objects = "absent"
    THEN [res |-> "Exception", section |-> section, repl_objects |-> "unset"]
    ELSE [res |-> "ok", section |-> section, repl_objects |-> section.replication_objects]

\* Indexes.__init__: the default of larger_than.
DefaultLargerThan(section) ==
    IF section.larger_than = "absent" THEN [section EXCEPT !.larger_than = "10 GB"] ELSE section

\* A bug: a value the map does not know is passed on as "always".
OneTimeCopyUnknownAlways(copy_data) ==
    CASE copy_data = "never" -> 0
      [] copy_data = "always" -> 1
      [] copy_data = "empty" -> 2
      [] OTHER -> 1

\* Bucardo.add_triggers: one_time_copy = 0, overridden from map_copy_values.
OneTimeCopy(copy_data) ==
    CASE copy_data = "never" -> 0
      [] copy_data = "always" -> 1
      [] copy_data = "empty" -> 2
      [] OTHER -> 0

\* No engine call has been made.
NoCopyMode == 0 - 1

\* Indexes.__init__(cfg)
IndexesInit ==
    /\ kpc = "start"
    /\ LET r == SetInheritableParams(cfg_indexes, cfg_bucardo)
       IN  /\ kres' = r.res
           /\ repl_objects' = r.repl_objects
           /\ IF r.res = "ok"
              THEN kpc' = "constructed" /\ cfg_indexes' = DefaultLargerThan(r.section)
              ELSE kpc' = "failed" /\ cfg_indexes' = r.section
    /\ UNCHANGED <<cfg_bucardo, one_time_copy>>
    /\ UNCHANGED notCfg

\* Bucardo.add_triggers: the "bucardo add sync ... onetimecopy=" call.
AddSyncCall ==
    /\ one_time_copy = NoCopyMode
    /\ one_time_copy' = OneTimeCopy(cfg_bucardo.copy_data)
    /\ UNCHANGED <<cfg_indexes, cfg_bucardo, repl_objects, kpc, kres>>
    /\ UNCHANGED notCfg

CfgInit ==
    /\ cfg_indexes \in IndexesSections
    /\ cfg_bucardo \in [replication_objects : MaybeFilter, copy_data : CopyDataValues]
    /\ repl_objects = "unset"
    /\ one_time_copy = NoCopyMode
    /\ kpc = "start"
    /\ kres = "none"

CfgNext == IndexesInit \/ AddSyncCall

CfgAtRest ==
    /\ cfg_indexes = NoSection
    /\ cfg_bucardo = [replication_objects |-> "filter_a", copy_data |-> "never"]
    /\ repl_objects = "unset"
    /\ one_time_copy = NoCopyMode
    /\ kpc = "start"
    /\ kres = "none"

-----------------------------------------------------------------------------
(* wrapper.py: the loop over the commands of --list_commands.             *)

\* Longest command list.
MaxCmds == 3

\* available_cmds[config_file]: the commands the plugins define.
AvailableCmds == {"bucardo.add_triggers", "indexes.drop"}

\* What an operator can put in the list: commands, a typo, and "exit".
UserCmds == AvailableCmds \cup {"indexes.dorp", "exit"}

CmdLists == UNION {[1..n -> UserCmds] : n \in 0..MaxCmds}

\* The process has not ended.
Running == 0 - 1

\* How a call of a plugin method can end.
Outcomes == {"returns", "raises", "interrupted"}

\* A bug: execute() swallows every exception of the command.
FuncEndsProcessNever(outcome) == FALSE

\* execute(): only KeyboardInterrupt is caught around func(); any other
\* exception goes up through the loop and ends the process.
FuncEndsProcess(outcome) == outcome = "raises"

\* execute(user_cmd, config_file)
WrapExecute ==
    /\ wpc = "execute"
    /\ cmds # <<>>
    /\ LET user_cmd == Head(cmds)
       IN  IF user_cmd = "exit"
           THEN /\ wpc' = "ended"
                /\ exit_status' = 0
                /\ UNCHANGED <<cmds, log>>
           ELSE IF user_cmd \in AvailableCmds
           THEN \E o \in Outcomes :
                    /\ log' = Append(log, [cmd |-> user_cmd, func |-> o, valid |-> "none"])
                    /\ IF FuncEndsProcess(o)
                       THEN wpc' = "ended" /\ exit_status' = 1
                       ELSE wpc' = "validate" /\ UNCHANGED exit_status
                    /\ UNCHANGED cmds
           ELSE /\ log' = Append(log, [cmd |-> user_cmd, func |-> "unrecognized",
                                       valid |-> "none"])
                /\ wpc' = "validate"
                /\ UNCHANGED <<cmds, exit_status>>
    /\ UNCHANGED notWrap

\* validate(user_cmd, config_file), and the step of the for loop after it.
\* An Exception of valid(), the KeyError of an unknown command included, is
\* printed and replaced by Exception(); a KeyboardInterrupt is not caught.
WrapValidate ==
    /\ wpc = "validate"
    /\ LET user_cmd == Head(cmds)
           n == Len(log)
       IN  \E o \in Outcomes :
               /\ user_cmd \notin AvailableCmds => o = "raises"
               /\ log' = [log EXCEPT ![n].valid = o]
               /\ IF o = "returns"
                  THEN /\ cmds' = Tail(cmds)
                       /\ wpc' = "execute"
                       /\ UNCHANGED exit_status
                  ELSE /\ wpc' = "ended"
                       /\ exit_status' = IF o = "raises" THEN 1 ELSE 130
                       /\ UNCHANGED cmds
    /\ UNCHANGED notWrap

\* The for loop has gone through the list: the script ends.
WrapEnd ==
    /\ wpc = "execute"
    /\ cmds = <<>>
    /\ wpc' = "ended"
    /\ exit_status' = 0
    /\ UNCHANGED <<cmds, log>>
    /\ UNCHANGED notWrap

WrapInit ==
    /\ cmds \in CmdLists
    /\ wpc = "execute"
    /\ exit_status = Running
    /\ log = <<>>

WrapNext == WrapExecute \/ WrapValidate \/ WrapEnd

\* Interactive mode: print(menu) and input(...); the operator types a
\* command, at most MaxCmds of them in a session.
MenuPrompt ==
    /\ wpc = "prompt"
    /\ Len(log) < MaxCmds
    /\ \E user_cmd \in UserCmds : cmds' = <<user_cmd>>
    /\ wpc' = "menu_execute"
    /\ UNCHANGED <<exit_status, log>>
    /\ UNCHANGED notWrap

\* Interactive mode: Ctrl-C or end of input at the prompt leaves the loop.
MenuPromptInterrupted ==
    /\ wpc = "prompt"
    /\ cmds' = <<>>
    /\ wpc' = "ended"
    /\ exit_status' = 130
    /\ UNCHANGED log
    /\ UNCHANGED notWrap

\* Interactive mode: execute(user_cmd, config_file).
MenuExecute ==
    /\ wpc = "menu_execute"
    /\ LET user_cmd == Head(cmds)
       IN  IF user_cmd = "exit"
           THEN /\ wpc' = "ended"
                /\ exit_status' = 0
                /\ UNCHANGED log
           ELSE IF user_cmd \in AvailableCmds
           THEN \E o \in Outcomes :
                    /\ log' = Append(log, [cmd |-> user_cmd, func |-> o, valid |-> "none"])
                    /\ IF FuncEndsProcess(o)
                       THEN wpc' = "ended" /\ exit_status' = 1
                       ELSE wpc' = "menu_validate" /\ UNCHANGED exit_status
           ELSE /\ log' = Append(log, [cmd |-> user_cmd, func |-> "unrecognized",
                                       valid |-> "none"])
                /\ wpc' = "menu_validate"
                /\ UNCHANGED exit_status
    /\ UNCHANGED cmds
    /\ UNCHANGED notWrap

\* Interactive mode: validate(user_cmd, config_file), then print() and the
\* next turn of "while True".
MenuValidate ==
    /\ wpc = "menu_validate"
    /\ LET user_cmd == Head(cmds)
           n == Len(log)
       IN  \E o \in Outcomes :
               /\ user_cmd \notin AvailableCmds => o = "raises"
               /\ log' = [log EXCEPT ![n].valid = o]
               /\ IF o = "returns"
                  THEN /\ wpc' = "prompt"
                       /\ UNCHANGED exit_status
                  ELSE /\ wpc' = "ended"
                       /\ exit_status' = IF o = "raises" THEN 1 ELSE 130
    /\ UNCHANGED cmds
    /\ UNCHANGED notWrap

MenuInit ==
    /\ cmds = <<>>
    /\ wpc = "prompt"
    /\ exit_status = Running
    /\ log = <<>>

MenuNext == MenuPrompt \/ MenuPromptInterrupted \/ MenuExecute \/ MenuValidate

WrapAtRest ==
    /\ cmds = <<>>
    /\ wpc = "execute"
    /\ exit_status = Running
    /\ log = <<>>

-----------------------------------------------------------------------------
(* Bucardo.wait_for_copy, the engine's copy, and the index workflow run    *)
(* by the same operator.                                                   *)

\* Values of bucardo.sync.onetimecopy: 0 done or never, 1 always, 2 if empty.
CopyFlags == 0..2

\* The tables bucardo.sync can be: no sync, this replication's sync, or that
\* and the sync of another replication.
SyncTables ==
    UNION {[names -> CopyFlags] : names \in {{}, {repl_name}, {repl_name, OtherRepl}}}

\* A bug: the loop ends on the first poll that finds a copy pending.
CopyCompletePending(onetimecopy_status) == onetimecopy_status # 0

\* "if onetimecopy_status[0] == 0: break"
CopyComplete(onetimecopy_status) == onetimecopy_status = 0

\* wait_for_copy(): the test of copy_data.
WaitBegin ==
    /\ ppc = "idle"
    /\ ipc = "idle"
    /\ read_zero' = FALSE
    /\ waited' = FALSE
    /\ IF cfg_bucardo.copy_data \in {"always", "empty"}
       THEN ppc' = "connect" /\ UNCHANGED pres
       ELSE ppc' = "done" /\ pres' = "ok"
    /\ UNCHANGED <<sync_rows, pconn>>
    /\ UNCHANGED notWait

\* conn = psycopg2.connect(self.bucardo_conn_pg_format)
WaitConnect ==
    /\ ppc = "connect"
    /\ ppc' = "query"
    /\ pconn' = "bucardo"
    /\ UNCHANGED <<sync_rows, pres, read_zero, waited>>
    /\ UNCHANGED notWait

\* "SELECT onetimecopy FROM bucardo.sync", fetchone(), conn.close(), and the
\* test of the row: the first row of the table is whichever the database
\* returns first; with no row fetchone() is None and the subscript raises.
WaitQuery ==
    /\ ppc = "query"
    /\ pconn' = "none"
    /\ IF DOMAIN sync_rows = {}
       THEN ppc' = "done" /\ pres' = "error" /\ UNCHANGED read_zero
       ELSE \E n \in DOMAIN sync_rows :
                IF CopyComplete(sync_rows[n])
                THEN ppc' = "done" /\ pres' = "ok" /\ read_zero' = (sync_rows[n] = 0)
                ELSE ppc' = "sleep" /\ UNCHANGED <<pres, read_zero>>
    /\ UNCHANGED <<sync_rows, waited>>
    /\ UNCHANGED notWait

\* print("."); time.sleep(5)
WaitSleep ==
    /\ ppc = "sleep"
    /\ ppc' = "connect"
    /\ UNCHANGED <<sync_rows, pres, pconn, read_zero, waited>>
    /\ UNCHANGED notWait

\* The connection or the query fails, or the operator presses Ctrl-C: the
\* finally block closes conn on the way out.
WaitAbort ==
    /\ ppc \in {"connect", "query", "sleep"}
    /\ ppc' = "done"
    /\ \/ ppc # "sleep" /\ pres' = "error"
       \/ pres' = "interrupted"
    /\ pconn' = "none"
    /\ UNCHANGED <<sync_rows, read_zero, waited>>
    /\ UNCHANGED notWait

\* wait_for_copy has returned to the wrapper ("return True") or was left by
\* an exception.
WaitReturn ==
    /\ ppc = "done"
    /\ ppc' = "idle"
    /\ pres' = "none"
    /\ waited' = (pres = "ok")
    /\ UNCHANGED <<sync_rows, pconn, read_zero>>
    /\ UNCHANGED notWait

\* The replication engine finishes the initial copy of a sync and clears
\* its flag.
EngineCopyDone ==
    /\ \E n \in DOMAIN sync_rows :
           /\ sync_rows[n] # 0
           /\ sync_rows' = [sync_rows EXCEPT ![n] = 0]
    /\ UNCHANGED <<ppc, pres, pconn, read_zero, waited>>
    /\ UNCHANGED notWait

\* The operator starts drop() or recreate() when no other command runs.
OperatorStartsIdx ==
    /\ ppc = "idle"
    /\ DropBegin \/ RecreateBegin

WaitInit ==
    /\ sync_rows \in SyncTables
    /\ ppc = "idle"
    /\ pres = "none"
    /\ pconn = "none"
    /\ read_zero = FALSE
    /\ waited = FALSE

CopyNext ==
    \/ WaitBegin
    \/ WaitConnect
    \/ WaitQuery
    \/ WaitSleep
    \/ WaitAbort
    \/ WaitReturn
    \/ EngineCopyDone
    \/ OperatorStartsIdx
    \/ DropTable
    \/ DropTableStoreFails
    \/ DropAfterLoop
    \/ ExecFetch
    \/ ExecDdl
    \/ ExecEnd
    \/ IdxAbort
    \/ IdxReturn

\* wait_for_copy run to its end, never interrupted, while the engine copies.
WaitNext ==
    \/ WaitBegin
    \/ WaitConnect
    \/ WaitQuery
    \/ WaitSleep
    \/ WaitReturn
    \/ EngineCopyDone

\* The wrapper's single thread goes on polling: it connects, queries and
\* sleeps 5 seconds, again and again.
WaitFairness == WF_vars(WaitConnect \/ WaitQuery \/ WaitSleep)

WaitAtRest ==
    /\ sync_rows = << >>
    /\ ppc = "idle"
    /\ pres = "none"
    /\ pconn = "none"
    /\ read_zero = FALSE
    /\ waited = FALSE

-----------------------------------------------------------------------------
(* Indexes._convert_units: the threshold string to a byte count.  Numbers   *)
(* are held as m * 10^e, the way their decimal text is written.             *)

\* Units of the quantities module that hold bytes: the number of bytes of one.
UnitBytes ==
    [B |-> [m |-> 1, e |-> 0], kB |-> [m |-> 1, e |-> 3], MB |-> [m |-> 1, e |-> 6],
     GB |-> [m |-> 1, e |-> 9], TB |-> [m |-> 1, e |-> 12], PB |-> [m |-> 1, e |-> 15],
     EB |-> [m |-> 1, e |-> 18], KiB |-> [m |-> 1024, e |-> 0],
     MiB |-> [m |-> 1048576, e |-> 0]]

Units == DOMAIN UnitBytes

\* The integers an operator writes in front of the unit.
Magnitudes == {1, 8, 10, 15, 500}

\* The strings: digits, spaces or none, letters.
ThresholdStrings == [magnitude : Magnitudes, spaces : 0..1, unit : Units]

RECURSIVE NumDigits(_)
NumDigits(n) == IF n < 10 THEN 1 ELSE 1 + NumDigits(n \div 10)

RECURSIVE LeadingDigit(_)
LeadingDigit(n) == IF n < 10 THEN n ELSE LeadingDigit(n \div 10)

\* m * 10^e with the trailing zeros of m moved into e.
RECURSIVE Norm(_)
Norm(v) ==
    IF v.m # 0 /\ v.m % 10 = 0 THEN Norm([m |-> v.m \div 10, e |-> v.e + 1]) ELSE v

\* str() of the float magnitude, as numpy writes a float64: positional with
\* ".0" below 10^16, otherwise scientific with the shortest mantissa.
FloatStr(v) ==
    IF NumDigits(v.m) + v.e <= 16
    THEN [form |-> "positional", m |-> v.m, e |-> v.e]
    ELSE [form |-> "scientific", m |-> v.m, e |-> NumDigits(v.m) + v.e - 1]

\* re.sub(r"\..*", "", str(converted_unit)): everything from the first "."
\* goes.  A mantissa of one digit has no "." ("1e+16 B"), and the text stays.
ReSub(text) ==
    IF text.form = "positional"
    THEN [number |-> TRUE, m |-> text.m, e |-> text.e]
    ELSE IF text.m < 10
    THEN [number |-> FALSE, m |-> text.m, e |-> text.e]
    ELSE [number |-> TRUE, m |-> LeadingDigit(text.m), e |-> 0]

\* _convert_units(larger_than)
ConvertUnits(str) ==
    LET nospace == [str EXCEPT !.spaces = 0]
        larger_than_magnitude == nospace.magnitude
        larger_than_unit == nospace.unit
        bytes == Norm([m |-> larger_than_magnitude * UnitBytes[larger_than_unit].m,
                       e |-> UnitBytes[larger_than_unit].e])
    IN  ReSub(FloatStr(bytes))

NoNumber == [number |-> FALSE, m |-> 0, e |-> 0]

\* larger_than = self._convert_units(self.cfg["indexes"]["larger_than"])
ConvertThreshold ==
    /\ upc = "start"
    /\ converted' = ConvertUnits(larger_than)
    /\ upc' = "converted"
    /\ UNCHANGED <<larger_than, query_param>>
    /\ UNCHANGED notUnits

\* cur.execute(query, [table[0], table[1], larger_than])
SizeQuery ==
    /\ upc = "converted"
    /\ query_param' = converted
    /\ upc' = "queried"
    /\ UNCHANGED <<larger_than, converted>>
    /\ UNCHANGED notUnits

UnitsInit ==
    /\ larger_than \in ThresholdStrings
    /\ converted = NoNumber
    /\ query_param = NoNumber
    /\ upc = "start"

UnitsNext == ConvertThreshold \/ SizeQuery

UnitsAtRest ==
    /\ larger_than = [magnitude |-> 10, spaces |-> 1, unit |-> "GB"]
    /\ converted = NoNumber
    /\ query_param = NoNumber
    /\ upc = "start"

-----------------------------------------------------------------------------
(* The specifications: each component runs with the other at rest.         *)

IdxAtRest ==
    /\ pcat = PrimaryKeys
    /\ relsize = [t \in Tables |-> LargerThan]
    /\ scat = PrimaryKeys
    /\ store = {}
    /\ ipc = "idle"
    /\ todo = <<>>
    /\ safe_to_drop = FALSE
    /\ imode = "none"
    /\ ddlq = <<>>
    /\ issued = <<>>
    /\ discovered = {}
    /\ mismatch = FALSE
    /\ captured = NoCapture
    /\ ires = "none"
    /\ iconn = "none"
    /\ scat0 = PrimaryKeys
    /\ ierror = NoError
    /\ prev_drop_ok = FALSE
    /\ from_empty = FALSE

TrigAtRest ==
    /\ cascade = FALSE
    /\ async_kick = FALSE
    /\ tg = NoTriggers
    /\ syncs = {}
    /\ lock_timeout = "DEFAULT"
    /\ tpc = "idle"
    /\ top = "none"
    /\ passes = <<>>
    /\ tq = <<>>
    /\ tres = "none"
    /\ tconn = "none"
    /\ prevM = "none"
    /\ HistoryIdle

------------------------------------------------------------------------------
(* Retry operations of two replication names, run at the same time by two  *)
(* wrapper processes against one primary.                                   *)

\* The roles of the primary; database_owner is the role _set_timeout alters.
Roles == {"owner", "app"}
DatabaseOwner == "owner"
ReplNames == {"repl1", "repl2"}

\* A session starts with the lock_timeout set for the role it logs in as.
SessionTimeout(settings, role) == settings[role]

OpsInit ==
    /\ schema_owner \in Roles
    /\ role_timeout = [r \in Roles |-> "DEFAULT"]
    /\ opc = [o \in ReplNames |-> "idle"]
    /\ sess = [o \in ReplNames |-> "none"]
    /\ calls = [o \in ReplNames |-> 0]
    /\ rq = [o \in ReplNames |-> 0]
    /\ issued_in = {}

OpsAtRest ==
    /\ schema_owner = DatabaseOwner
    /\ role_timeout = [r \in Roles |-> "DEFAULT"]
    /\ opc = [o \in ReplNames |-> "idle"]
    /\ sess = [o \in ReplNames |-> "none"]
    /\ calls = [o \in ReplNames |-> 0]
    /\ rq = [o \in ReplNames |-> 0]
    /\ issued_in = {}

\* Retry.add_triggers or Retry.drop_triggers is called: drop_triggers and a
\* non-cascading add open one connection for their statements, a cascading
\* add opens two (one _toggle_triggers call per trigger).
OpBegin(o) ==
    /\ opc[o] = "idle"
    /\ opc' = [opc EXCEPT ![o] = "set_timeout"]
    /\ \E n \in {1, 2} : calls' = [calls EXCEPT ![o] = n]
    /\ UNCHANGED <<schema_owner, role_timeout, sess, rq, issued_in>>
    /\ UNCHANGED notOps

\* _set_timeout(self.primary_user, self.timeout): ALTER ROLE ... SET
\* lock_timeout, committed.
OpSetTimeout(o) ==
    /\ opc[o] = "set_timeout"
    /\ role_timeout' = [role_timeout EXCEPT ![DatabaseOwner] = "timeout"]
    /\ opc' = [opc EXCEPT ![o] = "connect"]
    /\ UNCHANGED <<schema_owner, sess, calls, rq, issued_in>>
    /\ UNCHANGED notOps

\* psycopg2.connect(self.primary_schema_owner_conn_pg_format) in
\* _toggle_triggers and drop_triggers.
OpConnect(o) ==
    /\ opc[o] = "connect"
    /\ sess' = [sess EXCEPT ![o] = SessionTimeout(role_timeout, schema_owner)]
    /\ rq' = [rq EXCEPT ![o] = Cardinality(TrigTables)]
    /\ calls' = [calls EXCEPT ![o] = calls[o] - 1]
    /\ opc' = [opc EXCEPT ![o] = "tables"]
    /\ UNCHANGED <<schema_owner, role_timeout, issued_in>>
    /\ UNCHANGED notOps

\* The ALTER TABLE ... TRIGGER or DROP TRIGGER of the next table.
OpStatement(o) ==
    /\ opc[o] = "tables"
    /\ rq[o] > 0
    /\ issued_in' = issued_in \cup {<<o, sess[o]>>}
    /\ rq' = [rq EXCEPT ![o] = rq[o] - 1]
    /\ UNCHANGED <<schema_owner, role_timeout, opc, sess, calls>>
    /\ UNCHANGED notOps

\* conn.close() after the last table; the next _toggle_triggers call, if
\* any, connects anew.
OpClose(o) ==
    /\ opc[o] = "tables"
    /\ rq[o] = 0
    /\ sess' = [sess EXCEPT ![o] = "none"]
    /\ opc' = [opc EXCEPT ![o] = IF calls[o] > 0 THEN "connect" ELSE "reset"]
    /\ UNCHANGED <<schema_owner, role_timeout, calls, rq, issued_in>>
    /\ UNCHANGED notOps

\* _set_timeout(self.primary_user, 'DEFAULT').
OpResetTimeout(o) ==
    /\ opc[o] = "reset"
    /\ role_timeout' = [role_timeout EXCEPT ![DatabaseOwner] = "DEFAULT"]
    /\ opc' = [opc EXCEPT ![o] = "done"]
    /\ UNCHANGED <<schema_owner, sess, calls, rq, issued_in>>
    /\ UNCHANGED notOps

\* The command returns to the wrapper's loop.
OpReturn(o) ==
    /\ opc[o] = "done"
    /\ opc' = [opc EXCEPT ![o] = "idle"]
    /\ UNCHANGED <<schema_owner, role_timeout, sess, calls, rq, issued_in>>
    /\ UNCHANGED notOps

OpsNext ==
    \/ \E o \in ReplNames : OpBegin(o)
    \/ \E o \in ReplNames : OpSetTimeout(o)
    \/ \E o \in ReplNames : OpConnect(o)
    \/ \E o \in ReplNames : OpStatement(o)
    \/ \E o \in ReplNames : OpClose(o)
    \/ \E o \in ReplNames : OpResetTimeout(o)
    \/ \E o \in ReplNames : OpReturn(o)

------------------------------------------------------------------------------
(* Which tables each step works on: the install step that registers them   *)
(* with the engine, the trigger reconciliation and drop_triggers.           *)

Relations == {"ra", "rb", "rc"}
\* pg_class.relkind: ordinary table, partitioned table, sequence.
RelKinds == {"r", "p", "S"}
NotRun == {"not run"}

\* _find_objects(datatype, ...) on a catalog: the relations of that kind the
\* filter matches, those that are an inheritance parent left out
\* (pi.inhrelid IS NULL).
FindObjectsIn(cat, datatype) ==
    {r \in Relations :
        /\ cat[r].relkind = datatype
        /\ ~cat[r].has_children
        /\ cat[r].matches}

\* tables of _toggle_triggers and of drop_triggers.
LoopTables(cat) == FindObjectsIn(cat, "r")

\* schema_tables of _add_table_sequence_metadata.
RegisteredTables(cat) == FindObjectsIn(cat, "r") \cup FindObjectsIn(cat, "p")

RelsInit ==
    /\ pg_class \in [Relations -> [relkind : RelKinds, has_children : BOOLEAN, matches : BOOLEAN]]
    /\ registered = NotRun
    /\ reconciled = NotRun
    /\ undone = NotRun

RelsAtRest ==
    /\ pg_class = [r \in Relations |-> [relkind |-> "r", has_children |-> FALSE, matches |-> TRUE]]
    /\ registered = NotRun
    /\ reconciled = NotRun
    /\ undone = NotRun

\* _add_table_sequence_metadata: the tables passed to `bucardo add tables`.
AddTableSequenceMetadata ==
    /\ registered = NotRun
    /\ registered' = RegisteredTables(pg_class)
    /\ UNCHANGED <<pg_class, reconciled, undone>>
    /\ UNCHANGED notRels

\* _toggle_triggers: tables = self._find_objects("r", ...).
ToggleTriggersTables ==
    /\ registered # NotRun
    /\ reconciled' = LoopTables(pg_class)
    /\ UNCHANGED <<pg_class, registered, undone>>
    /\ UNCHANGED notRels

\* drop_triggers: tables = self._find_objects("r", ...).
DropTriggersTables ==
    /\ registered # NotRun
    /\ undone' = LoopTables(pg_class)
    /\ UNCHANGED <<pg_class, registered, reconciled>>
    /\ UNCHANGED notRels

RelsNext ==
    \/ AddTableSequenceMetadata
    \/ ToggleTriggersTables
    \/ DropTriggersTables

------------------------------------------------------------------------------
(* The daemon commands start, stop and restart with asynchronous kicking   *)
(* enabled, and the background kick process they manage with a pidfile.     *)

\* The wrapper starts at most this many processes.
MaxPid == 6
Pids == 1..MaxPid
NoFile == 0

\* _async_kick_start: Popen(["watch", "-n 1", "bucardo", "... kick ..."]) and
\* the pid written over whatever the pidfile held.
AsyncKickStart(alive, file, pid) == [alive |-> alive \cup {pid}, file |-> pid]

\* _async_kick_stop: SIGKILL to the pid of the pidfile and the file removed;
\* os.kill raises OSError for a pid that is gone and the file is left; with
\* no pidfile nothing is killed.
AsyncKickStop(alive, file) ==
    IF file = NoFile
    THEN [alive |-> alive, file |-> NoFile]
    ELSE IF file \in alive
    THEN [alive |-> alive \ {file}, file |-> NoFile]
    ELSE [alive |-> alive, file |-> file]

KickInit ==
    /\ kick_alive = {}
    /\ autokick_pidfile = NoFile
    /\ next_pid = 1
    /\ last_call = "none"

KickAtRest ==
    /\ kick_alive = {}
    /\ autokick_pidfile = NoFile
    /\ next_pid = 1
    /\ last_call = "none"

\* Bucardo.start
Start ==
    /\ next_pid <= MaxPid
    /\ LET r == AsyncKickStart(kick_alive, autokick_pidfile, next_pid)
       IN  /\ kick_alive' = r.alive
           /\ autokick_pidfile' = r.file
    /\ next_pid' = next_pid + 1
    /\ last_call' = "start"
    /\ UNCHANGED notKick

\* Bucardo.stop
Stop ==
    /\ LET r == AsyncKickStop(kick_alive, autokick_pidfile)
       IN  /\ kick_alive' = r.alive
           /\ autokick_pidfile' = r.file
    /\ last_call' = "stop"
    /\ UNCHANGED next_pid
    /\ UNCHANGED notKick

\* Bucardo.restart
Restart ==
    /\ next_pid <= MaxPid
    /\ LET stopped == AsyncKickStop(kick_alive, autokick_pidfile)
           r == AsyncKickStart(stopped.alive, stopped.file, next_pid)
       IN  /\ kick_alive' = r.alive
           /\ autokick_pidfile' = r.file
    /\ next_pid' = next_pid + 1
    /\ last_call' = "restart"
    /\ UNCHANGED notKick

\* A kick process ends on its own (killed by hand, host restarted).
KickProcessEnds ==
    /\ \E p \in kick_alive : kick_alive' = kick_alive \ {p}
    /\ UNCHANGED <<autokick_pidfile, next_pid, last_call>>
    /\ UNCHANGED notKick

KickNext == Start \/ Stop \/ Restart \/ KickProcessEnds

\* The index workflow starts with the trigger operations idle.
InitIdx == IdxInit /\ TrigAtRest /\ CfgAtRest /\ WrapAtRest /\ WaitAtRest /\ UnitsAtRest /\ OpsAtRest /\ RelsAtRest /\ KickAtRest

SpecIdx == InitIdx /\ [][IdxNext]_vars

\* The trigger operations start with the index workflow idle.
InitTrig == TrigInit /\ IdxAtRest /\ CfgAtRest /\ WrapAtRest /\ WaitAtRest /\ UnitsAtRest /\ OpsAtRest /\ RelsAtRest /\ KickAtRest

SpecTrig == InitTrig /\ [][TrigNext]_vars

\* The configuration is read with no operation running.
InitCfg == CfgInit /\ IdxAtRest /\ TrigAtRest /\ WrapAtRest /\ WaitAtRest /\ UnitsAtRest /\ OpsAtRest /\ RelsAtRest /\ KickAtRest

SpecCfg == InitCfg /\ [][CfgNext]_vars

\* The command loop, with the commands reduced to the way they end.
InitWrap == WrapInit /\ IdxAtRest /\ TrigAtRest /\ CfgAtRest /\ WaitAtRest /\ UnitsAtRest /\ OpsAtRest /\ RelsAtRest /\ KickAtRest

SpecWrap == InitWrap /\ [][WrapNext]_vars

\* Waiting for the copy and the index workflow, on a secondary that has one
\* large index and one large unique constraint to move.
InitCopy ==
    /\ WaitInit
    /\ IdxInit
    /\ pcat = PrimaryKeys \cup {Obj("t1", "ia", "i", 1), Obj("t2", "ub", "u", 1)}
    /\ relsize = [t \in Tables |-> LargerThan + 1]
    /\ TrigAtRest
    /\ WrapAtRest
    /\ UnitsAtRest
    /\ OpsAtRest
    /\ RelsAtRest
    /\ KickAtRest
    /\ kpc = "start"
    /\ kres = "none"
    /\ repl_objects = "unset"
    /\ one_time_copy = NoCopyMode
    /\ cfg_indexes = NoSection
    /\ cfg_bucardo \in [replication_objects : {"filter_a"}, copy_data : CopyDataValues]

SpecCopy == InitCopy /\ [][CopyNext]_vars

\* The Retry commands alone, the role's prior lock_timeout left open.
InitRetry ==
    RetryInit /\ IdxAtRest /\ CfgAtRest /\ WrapAtRest /\ WaitAtRest /\ UnitsAtRest /\ OpsAtRest /\ RelsAtRest /\ KickAtRest

SpecRetry == InitRetry /\ [][RetryNext]_vars

\* Retry.add_triggers re-run for ever, with the locks available in the end.
InitConverge ==
    ConvergeInit /\ IdxAtRest /\ CfgAtRest /\ WrapAtRest /\ WaitAtRest /\ UnitsAtRest /\ OpsAtRest /\ RelsAtRest /\ KickAtRest

SpecConverge == InitConverge /\ [][ConvergeNext]_vars /\ ConvergeFairness

\* Two wrapper processes, one replication name each, on one primary.
InitOps ==
    OpsInit /\ IdxAtRest /\ TrigAtRest /\ CfgAtRest /\ WrapAtRest /\ WaitAtRest /\ UnitsAtRest /\ RelsAtRest /\ KickAtRest

SpecOps == InitOps /\ [][OpsNext]_vars

\* The tables of a replication, from install to drop_triggers.
InitRels ==
    RelsInit /\ IdxAtRest /\ TrigAtRest /\ CfgAtRest /\ WrapAtRest /\ WaitAtRest /\ UnitsAtRest /\ OpsAtRest /\ KickAtRest

SpecRels == InitRels /\ [][RelsNext]_vars

\* wait_for_copy and the engine, for every configured copy mode.
InitWait ==
    /\ WaitInit
    /\ IdxAtRest
    /\ TrigAtRest
    /\ WrapAtRest
    /\ UnitsAtRest
    /\ OpsAtRest
    /\ RelsAtRest
    /\ KickAtRest
    /\ kpc = "start"
    /\ kres = "none"
    /\ repl_objects = "unset"
    /\ one_time_copy = NoCopyMode
    /\ cfg_indexes = NoSection
    /\ cfg_bucardo \in [replication_objects : {"filter_a"}, copy_data : CopyDataValues]

SpecWait == InitWait /\ [][WaitNext]_vars /\ WaitFairness

\* The daemon commands with asynchronous kicking enabled.
InitKick ==
    KickInit /\ IdxAtRest /\ TrigAtRest /\ CfgAtRest /\ WrapAtRest /\ WaitAtRest /\ UnitsAtRest /\ OpsAtRest /\ RelsAtRest

SpecKick == InitKick /\ [][KickNext]_vars

\* The wrapper in interactive mode.
InitMenu ==
    MenuInit /\ IdxAtRest /\ TrigAtRest /\ CfgAtRest /\ WaitAtRest /\ UnitsAtRest /\ OpsAtRest /\ RelsAtRest /\ KickAtRest

SpecMenu == InitMenu /\ [][MenuNext]_vars

\* The threshold conversion on its own.
InitUnits ==
    UnitsInit /\ IdxAtRest /\ TrigAtRest /\ CfgAtRest /\ WrapAtRest /\ WaitAtRest /\ OpsAtRest /\ RelsAtRest /\ KickAtRest

SpecUnits == InitUnits /\ [][UnitsNext]_vars

-----------------------------------------------------------------------------
(* Properties of the index migration workflow.                             *)

Range(q) == {q[i] : i \in DOMAIN q}

\* C1: in a drop() run, if for some in-scope table the number of definitions
\* discovered on the primary differs from the number stored for that table
\* and replication name, the run issues no DROP statement at all.
C1_NoDropOnMismatch ==
    (imode = "drop" /\ mismatch) => issued = <<>>

\* C6 as stated: when the DROP of one object fails, the DROP statements of
\* all the remaining backed-up objects are still executed.
C6_RemainingStillExecuted ==
    (ipc = "done" /\ imode = "drop" /\ ires = "ddl_error") =>
        \A i \in 2..Len(ddlq) : DdlOf(ddlq[i], imode) \in Range(issued)

\* C6 as the code has it: every DROP is committed on its own, so the objects
\* dropped before a failing DROP stay dropped; the failing DROP ends the run
\* with the error, and no DROP of a remaining object is executed.
C6_DropsCommittedUntilFailure ==
    (imode = "drop" /\ ipc \in {"exec", "done"}) =>
        /\ \A i \in DOMAIN issued :
              (i < Len(issued) \/ ires # "ddl_error") => Target(scat, issued[i]) = {}
        /\ ires = "ddl_error" =>
              /\ ipc = "done"
              /\ issued # <<>>
              /\ issued[Len(issued)] = DdlOf(Head(ddlq), imode)
              /\ \A i \in 2..Len(ddlq) : DdlOf(ddlq[i], imode) \notin Range(issued)

\* A drop() run whose first DROP failed while another object was still to drop.
C6_Witness ==
    /\ ipc = "done" /\ imode = "drop" /\ ires = "ddl_error"
    /\ Len(issued) = 1 /\ Len(ddlq) = 2

\* C7: no statement sent to the secondary names the index of a primary key,
\* no primary key is ever stored as a drop candidate, and every primary key
\* the secondary had is still there.
C7_PrimaryKeysKept ==
    /\ \A i \in DOMAIN issued : \A k \in PrimaryKeys : issued[i].name # k.name
    /\ \A x \in store : \A k \in PrimaryKeys : x.indexname # k.name
    /\ PrimaryKeys \subseteq scat

\* A drop() run that dropped every candidate of tables that have primary keys.
C7_Witness ==
    /\ ipc = "done" /\ imode = "drop" /\ ires = "ok"
    /\ Len(issued) = 2
    /\ \A t \in Tables : relsize[t] > LargerThan
    /\ scat = PrimaryKeys

\* C8: the create statement recreate() executes for an object is the create
\* DDL text that the drop() run which dropped the object captured for it.
C8_RoundTrip ==
    imode = "recreate" =>
        \A i \in DOMAIN issued :
            captured[issued[i].name] # NoDdl => issued[i] = captured[issued[i].name]

\* C9: backing up definitions whose identity is already stored changes
\* nothing, and backing up a set of definitions twice gives the store that
\* backing it up once gives.
C9_BackupIdempotent ==
    \A t \in Tables :
        LET defs == AllIndexes(pcat, relsize, t)
            once == StoreIndexDefs(store, defs)
        IN  /\ StoreIndexDefs(once, defs) = once
            /\ (\A d \in defs : Conflicts(store, StoreRow(d, repl_name))) => once = store

\* A drop() run has backed up a definition whose identity was already stored
\* with another DDL text, and the store still holds the old row only.
C9_Witness ==
    /\ ipc = "drop_tables"
    /\ \E d \in discovered :
          /\ Conflicts(store, StoreRow(d, repl_name))
          /\ StoreRow(d, repl_name) \notin store

-----------------------------------------------------------------------------
(* Properties of the trigger coordinator and the retry governor.           *)

InManage == tpc \in {"toggle_find", "toggle_loop", "manage_end"}

\* C2: when Retry.add_triggers or Retry.drop_triggers has ended, by whatever
\* exit path, the role's lock_timeout is DEFAULT.
C2_TimeoutRestored ==
    (tpc = "done" /\ top \in {"retry_add", "retry_drop"}) => lock_timeout = "DEFAULT"

\* C3 (states): in a pass of _toggle_triggers, a table whose ALTER failed on
\* the lock keeps the trigger state it had, and every other table visited has
\* the trigger in the state asked for (or has no such trigger).
C3_VisitedTables ==
    tpc = "toggle_loop" =>
        LET k == Head(passes).trigger
            want == Tgenabled(Head(passes).mode)
        IN  \A t \in FindObjects("r") \ Range(tq) :
                IF <<t, k>> \in skipped
                THEN tg[t][k] = tg0[t][k] /\ tg[t][k] # want
                ELSE tg[t][k] \in {"absent", want}

\* C3 (steps): the step that reports a lock failure leaves the catalog as it
\* was and goes on with the next table of the same pass.
C3_LockFailureContinues ==
    (tpc = "toggle_loop" /\ skipped' # skipped) =>
        /\ tg' = tg
        /\ tpc' = "toggle_loop"
        /\ tres' = "running"
        /\ tq' = Tail(tq)
        /\ skipped' = skipped \cup {<<Head(tq), Head(passes).trigger>>}

\* C3: a lock failure on one table of a reconciliation pass is rolled back
\* and reported, every other table that needs it is still altered, and the
\* pass goes on to its normal end.
C3_PartialFailureContinuation ==
    []C3_VisitedTables /\ [][C3_LockFailureContinues]_vars

\* A pass is over in which one table failed on the lock and another one was
\* altered.
C3_Witness ==
    /\ tpc = "toggle_loop" /\ tq = <<>>
    /\ \E t1, t2 \in FindObjects("r") :
          /\ <<t1, Head(passes).trigger>> \in skipped
          /\ tg[t2][Head(passes).trigger] # tg0[t2][Head(passes).trigger]

\* The desired-state table of the trigger coordinator.
DesiredState(trigger, casc, async) ==
    IF trigger = Kick
    THEN (IF async THEN "D" ELSE IF casc THEN "A" ELSE "O")
    ELSE (IF casc THEN "A" ELSE "O")

\* C4 as stated: after _manage_triggers completed without a lock failure,
\* every kick and truncate trigger of an in-scope table is in the state the
\* desired-state table gives for the flags, whatever it was before.
C4_DesiredStateReached ==
    (tpc = "manage_end" /\ skipped = {}) =>
        \A t \in FindObjects("r") : \A k \in {Kick, Trunc} :
            tg[t][k] # "absent" => tg[t][k] = DesiredState(k, cascade, async_kick)

\* C4 as the code has it: the DISABLED and ALWAYS entries of the table are
\* reached whatever the state before; where the table says ENABLED the
\* trigger keeps the state it had before the call.
C4_TargetsReachedOrKept ==
    (tpc = "manage_end" /\ skipped = {}) =>
        \A t \in FindObjects("r") : \A k \in {Kick, Trunc} :
            tg[t][k] = IF tg0[t][k] = "absent" \/ DesiredState(k, cascade, async_kick) = "O"
                       THEN tg0[t][k]
                       ELSE DesiredState(k, cascade, async_kick)

\* On a cascading primary without asynchronous kicking a disabled kick
\* trigger has been enabled always.
C4_Witness ==
    /\ tpc = "manage_end" /\ skipped = {}
    /\ cascade /\ ~async_kick
    /\ \E t \in FindObjects("r") : tg0[t][Kick] = "D" /\ tg[t][Kick] = "A" /\ tg[t][Trunc] = "A"

\* C5 as stated: a _manage_triggers call that directly follows another one,
\* with the same flags and an unchanged catalog, issues no ALTER.
C5_SecondCallNoAlter ==
    (InManage /\ again # "none") => alters = 0

\* C5 as the code has it: the second call issues no ALTER when the first one
\* met no lock failure.
C5_SecondCallNoAlterAfterCleanCall ==
    (InManage /\ again = "clean") => alters = 0

\* A second call has gone through its passes over existing triggers.
C5_Witness ==
    /\ tpc = "manage_end" /\ again = "clean"
    /\ cascade /\ async_kick
    /\ \A t \in FindObjects("r") : tg[t][Kick] = "D" /\ tg[t][Trunc] = "A"

\* C10: Retry.add_triggers does not call "add sync" when the sync is
\* registered: it validates the sync and reconciles the triggers; with no
\* sync registered it registers through Bucardo.add_triggers.
C10_NoSecondRegistration ==
    top = "retry_add" =>
        /\ repl_name \in syncs0 => addSyncCalls = 0
        /\ (tpc = "done" /\ tres = "ok") =>
              /\ prevM # "none"
              /\ IF syncs0 = {}
                 THEN addSyncCalls = 1 /\ ~validated
                 ELSE addSyncCalls = 0 /\ validated

\* A re-run of Retry.add_triggers on a registered sync has returned.
C10_Witness ==
    /\ top = "retry_add" /\ tpc = "done" /\ tres = "ok"
    /\ repl_name \in syncs0
    /\ validated

\* C11 (states): in drop_triggers, every (table, trigger) pair the loop has
\* passed is either reported as a lock failure or no longer on the table; at
\* the end of a run without lock failure no table has any of the three.
C11_PassedPairsDropped ==
    tpc = "drop_loop" =>
        \A t \in FindObjects("r") : \A k \in Trigs :
            (<<t, k>> \notin Range(tq) /\ <<t, k>> \notin skipped) => tg[t][k] = "absent"

\* C11 (steps): a lock failure reports the one pair, changes no trigger and
\* goes on with the next pair.
C11_LockFailureSkipsOnePair ==
    (tpc = "drop_loop" /\ skipped' # skipped) =>
        /\ tg' = tg
        /\ tpc' = "drop_loop"
        /\ tq' = Tail(tq)
        /\ skipped' = skipped \cup {Head(tq)}

\* C11: drop_triggers without a lock failure leaves none of the three
\* triggers on any in-scope table, whatever the flags and the states before;
\* a lock failure skips only its (table, trigger) pair.
C11_AllTriggersDropped ==
    []C11_PassedPairsDropped /\ [][C11_LockFailureSkipsOnePair]_vars

\* A drop_triggers loop is over in which exactly one trigger, enabled always
\* before, failed on the lock and is the only trigger left.
C11_Witness ==
    /\ tpc = "drop_loop" /\ tq = <<>>
    /\ Cardinality(skipped) = 1
    /\ \A t \in FindObjects("r") : \A k \in Trigs :
          IF <<t, k>> \in skipped THEN tg[t][k] = "A" ELSE tg[t][k] = "absent"

\* C12: when an operation has ended, by whatever exit path, no connection it
\* opened is still open.
C12_NoConnectionLeftOpen ==
    /\ tpc = "done" => tconn = "none"
    /\ ipc = "done" => iconn = "none"

\* The catalog after the statements of a sequence, each applied in its turn.
RECURSIVE ApplyAll(_, _)
ApplyAll(cat, stmts) ==
    IF stmts = <<>> THEN cat ELSE ApplyAll(DdlApply(cat, Head(stmts)), Tail(stmts))

\* The statements of this run that did not fail.
Succeeded ==
    IF ires = "ddl_error" THEN SubSeq(issued, 1, Len(issued) - 1) ELSE issued

\* C13 (DDL execution): at every point of a drop or recreate run, also after
\* a failure, the secondary holds the effects of all the statements that
\* succeeded and no effect of the failing one.
C13_DdlItemsCommitted ==
    scat = ApplyAll(scat0, Succeeded)

\* C13 (trigger toggling): a step of the pass changes at most the trigger of
\* the table it is at, and a step that fails changes nothing, so what the
\* earlier tables got stays.
C13_ToggleStep ==
    tpc = "toggle_loop" =>
        \A t \in TrigTables : \A k \in Trigs :
            tg'[t][k] # tg[t][k] =>
                /\ tq # <<>> /\ t = Head(tq) /\ k = Head(passes).trigger
                /\ skipped' = skipped
                /\ tpc' = "toggle_loop"

C14_DeltaNeverToggled ==
    InManage =>
        /\ \A t \in TrigTables : tg[t][Delta] = tg0[t][Delta]
        /\ \A i \in DOMAIN passes : passes[i].trigger # Delta

\* A call has disabled the kick trigger of a table whose delta trigger exists.
C14_Witness ==
    /\ tpc = "manage_end" /\ alters > 0
    /\ \E t \in FindObjects("r") :
          tg[t][Delta] = "O" /\ tg0[t][Kick] # "D" /\ tg[t][Kick] = "D"

\* C15: when the gate fails, the exception raised to the operator carries the
\* number of definitions discovered for the table and the number of rows
\* stored for it, and no statement has been sent to the secondary.
C15_GateErrorCarriesCounts ==
    ires = "gate_error" =>
        /\ ipc = "done"
        /\ ierror.expected = Cardinality(AllIndexes(pcat, relsize, Head(todo)))
        /\ ierror.stored = Cardinality({x \in store : /\ x.repl_name = repl_name
                                                      /\ x.schemaname = Ns
                                                      /\ x.tablename = Head(todo)})
        /\ ierror.expected # ierror.stored
        /\ issued = <<>>
        /\ scat = scat0

\* The gate has failed on a table with one candidate and two stored rows.
C15_Witness ==
    /\ ires = "gate_error"
    /\ ierror = [expected |-> 1, stored |-> 2]

\* C16: constructing the Indexes plugin takes the filter from the plugin's
\* own section if that defines one, otherwise from the bucardo section,
\* otherwise the construction raises; the filter is never defaulted.
C16_Construction ==
    (kpc = "start" /\ kpc' # "start") =>
        IF cfg_indexes.present /\ cfg_indexes.replication_objects # "absent"
        THEN kpc' = "constructed" /\ repl_objects' = cfg_indexes.replication_objects
        ELSE IF cfg_bucardo.replication_objects # "absent"
        THEN kpc' = "constructed" /\ repl_objects' = cfg_bucardo.replication_objects
        ELSE kpc' = "failed" /\ kres' # "ok" /\ repl_objects' = "unset"

C16_FilterResolution == [][C16_Construction]_vars

\* C20: the engine is called with copy mode 0 for 'never', 1 for 'always',
\* 2 for 'empty', and 0 for any other configured value.
C20_CopyMode ==
    one_time_copy # NoCopyMode =>
        one_time_copy = (CASE cfg_bucardo.copy_data = "always" -> 1
                           [] cfg_bucardo.copy_data = "empty" -> 2
                           [] OTHER -> 0)

\* The engine has been called with 0 for a value that is none of the three.
C20_Witness ==
    /\ one_time_copy = 0
    /\ cfg_bucardo.copy_data = "sometimes"

\* A command of the log failed: its method raised a fatal error or its
\* validation did not pass.
Failed(entry) == entry.func = "raises" \/ entry.valid = "raises"

\* C19: when a command of the list raises a fatal error or fails its
\* validation, the process ends with a failure status and no later command
\* is executed; when every command and validation succeeds, the process ends
\* with the success status.
C19_FailureStopsTheList ==
    /\ \A i \in 1..Len(log) :
           Failed(log[i]) => /\ i = Len(log)
                             /\ wpc = "ended"
                             /\ exit_status \notin {Running, 0}
    /\ (/\ wpc = "ended"
        /\ \A i \in 1..Len(log) : log[i].func = "returns" /\ log[i].valid = "returns")
       => exit_status = 0

\* Both cases have happened in runs of two commands: the second command
\* failed its validation after the first went through.
C19_Witness ==
    /\ Len(log) = 2
    /\ log[1].func = "returns" /\ log[1].valid = "returns"
    /\ log[2].func = "returns" /\ log[2].valid = "raises"
    /\ Len(cmds) = 2
    /\ exit_status = 1

\* C18 as stated: a drop() run right after a successful drop() run, with the
\* primary unchanged, completes without error, the DROP INDEX of an index
\* that is already absent on the secondary being a no-op.
C18_SecondDropCompletes ==
    (prev_drop_ok /\ imode = "drop" /\ ipc = "done") => ires \notin {"ddl_error", "gate_error"}

\* C18: the drop DDL is a plain DROP INDEX (no IF EXISTS), which fails on an
\* absent index: a drop() run right after a successful drop() run, with the
\* primary unchanged, that gets to execute drop DDL stops at its first
\* statement with an error and leaves the secondary as it was.
C18_SecondDropFailsAtFirstStatement ==
    (prev_drop_ok /\ imode = "drop" /\ issued # <<>>) =>
        /\ Len(issued) = 1
        /\ ipc = "done"
        /\ ires = "ddl_error"
        /\ scat = scat0

\* The second drop() has failed on the DROP INDEX of an absent index.
C18_Witness ==
    /\ prev_drop_ok
    /\ imode = "drop"
    /\ ires = "ddl_error"
    /\ issued # <<>>
    /\ issued[1].verb = "DROP INDEX"
    /\ \A o \in scat : o.name # issued[1].name

\* recreate() has executed create DDL while a copy is configured.
CreateDdlExecuted ==
    /\ imode = "recreate"
    /\ issued # <<>>
    /\ cfg_bucardo.copy_data \in {"always", "empty"}

OtherSpacing(str) == [str EXCEPT !.spaces = 1 - str.spaces]

\* The number of bytes the string denotes.
ByteCount(str) ==
    Norm([m |-> str.magnitude * UnitBytes[str.unit].m, e |-> UnitBytes[str.unit].e])

\* C21: _convert_units gives the same result with and without a space
\* between the integer and the unit, the result is the integer byte count of
\* that many units, and it goes unchanged into the size comparison.
C21_ConvertUnits ==
    /\ upc # "start" =>
           /\ converted = ConvertUnits(OtherSpacing(larger_than))
           /\ converted = [number |-> TRUE, m |-> ByteCount(larger_than).m,
                           e |-> ByteCount(larger_than).e]
    /\ upc = "queried" => query_param = converted

DroppedNames == {o.name : o \in scat0 \ scat}

\* C23: the objects a drop() run drops on the secondary are exactly the
\* definitions discovered on the primary during that run; nothing is dropped
\* whose definition this run did not discover.
C23_DroppedIsDiscovered ==
    imode = "drop" =>
        /\ DroppedNames \subseteq {d.indexname : d \in discovered}
        /\ (ipc = "done" /\ ires = "ok") => {d.indexname : d \in discovered} \subseteq DroppedNames

\* C24: a drop() run that starts from an empty Backup Store stores exactly
\* one row per discovered definition, so the stored count of every table
\* equals its discovered count and the gate does not raise.
C24_OneRowPerDefinition ==
    (imode = "drop" /\ from_empty) =>
        /\ ires # "gate_error"
        /\ ~mismatch
        /\ ires \notin {"error", "interrupted"} =>
               /\ store = {StoreRow(d, repl_name) : d \in discovered}
               /\ \A t \in Tables :
                      CheckNumIndexes(store, Ns, t)
                          = Cardinality({d \in discovered : d.tablename = t})

\* A run from an empty store has stored an index of one table and a unique
\* constraint of the other, and passed both gates.
C24_Witness ==
    /\ imode = "drop"
    /\ from_empty
    /\ todo = <<>>
    /\ \E x, y \in store : /\ x.tablename # y.tablename
                           /\ x.drop_ddl.verb = "DROP INDEX"
                           /\ y.drop_ddl.verb = "DROP CONSTRAINT"
    /\ ires = "ok"

\* C25: the Backup Store only grows: only the backup step of drop() adds
\* rows, and neither the DDL execution of drop() nor recreate() inserts,
\* updates or deletes a row, so after recreate() the store holds every
\* definition it held before.
C25_Step ==
    /\ store \subseteq store'
    /\ store' # store => (imode = "drop" /\ ipc = "drop_tables")

C25_StoreOnlyGrows == [][C25_Step]_vars

\* recreate() has executed the create DDL of every stored row, and the rows
\* are still there.
C25_Witness ==
    /\ imode = "recreate"
    /\ ires = "ok"
    /\ Len(issued) = 2
    /\ \A i \in 1..Len(issued) : \E x \in store : x.create_ddl = issued[i]

\* C26: an error other than lock-not-available on an ALTER of
\* _toggle_triggers or a DROP TRIGGER of drop_triggers rolls the statement
\* back, closes the connection and leaves the operation: no remaining table
\* is processed and what was committed for earlier tables stays.
C26_ErrorStep ==
    (tpc \in {"toggle_loop", "drop_loop"} /\ tres' = "error") =>
        /\ tg' = tg
        /\ tconn' = "none"
        /\ tpc' = "done"
        /\ tq' = tq

C26_FatalErrorAborts == [](tres = "error" => tpc = "done") /\ [][C26_ErrorStep]_vars

\* An ALTER has failed after the trigger of an earlier table was toggled:
\* the operation is over with a table left and the earlier change in place.
C26_Witness ==
    /\ tres = "error"
    /\ tpc = "done"
    /\ tconn = "none"
    /\ Len(tq) = 1
    /\ alters = 1
    /\ tg # tg0

\* A statement that mutates triggers is being attempted: an ALTER or a DROP
\* TRIGGER of the loops, or the engine creating the triggers of a new sync.
MutationAttempted ==
    /\ tpc # "done"
    /\ \/ tg' # tg
       \/ alters' # alters
       \/ skipped' # skipped
       \/ addSyncCalls' # addSyncCalls

\* C27: in a Retry.add_triggers or Retry.drop_triggers run the role's
\* lock_timeout is the configured timeout at every trigger mutation, and a
\* run that returns normally ends with lock_timeout DEFAULT, whatever the
\* role's lock_timeout was before the call.
C27_MutationStep ==
    (top \in {"retry_add", "retry_drop"} /\ MutationAttempted) =>
        (lock_timeout = "timeout" /\ lock_timeout' = "timeout")

C27_TimeoutAroundMutations ==
    /\ []((top \in {"retry_add", "retry_drop"} /\ tres = "ok") => lock_timeout = "DEFAULT")
    /\ [][C27_MutationStep]_vars

\* A Retry run on a role that had a lock_timeout of its own has toggled or
\* created triggers and returned.
C27_Witness ==
    /\ top \in {"retry_add", "retry_drop"}
    /\ tres = "ok"
    /\ own_timeout0
    /\ lock_timeout = "DEFAULT"
    /\ tg # NoTriggers

\* Every trigger the engine has created is in the state the flags give it.
Converged ==
    \A t \in FindObjects("r") : \A k \in {Kick, Trunc} :
        tg[t][k] # "absent" => tg[t][k] = DesiredState(k, cascade, async_kick)

\* C28: when Retry.add_triggers is re-run with unchanged flags and every
\* table's ALTER gets its lock in one of the runs, then from some run on every
\* trigger the flags govern is in its target state on every table and the
\* runs issue no ALTER.
C28_RetryConverges == <>[](Converged /\ alters = 0)

\* A run after one that met a lock failure finds every trigger of a
\* cascading primary in place and issues no ALTER.
C28_Witness ==
    /\ top = "retry_add"
    /\ tpc = "manage_end"
    /\ again = "clean"
    /\ alters = 0
    /\ cascade /\ ~async_kick
    /\ \A t \in FindObjects("r") : tg[t][Kick] = "A" /\ tg[t][Trunc] = "A"

------------------------------------------------------------------------------
(* Properties of concurrent Retry operations.                               *)

\* C29: every ALTER or DROP TRIGGER statement issued inside a Retry
\* operation runs in a session whose lock_timeout is the configured timeout,
\* also when two Retry operations for different replication names run at the
\* same time against the same primary role.
C29_StatementsBounded == \A st \in issued_in : st[2] = "timeout"

------------------------------------------------------------------------------
(* Properties of the set of tables each step works on.                      *)

\* C30: every table the install step registers with the replication engine
\* (relation kinds 'r' and 'p' matching the filter) is also visited by
\* trigger reconciliation and by drop_triggers: the set of reconciled tables
\* equals the set of registered tables.
C30_ReconciledIsRegistered ==
    /\ reconciled # NotRun => reconciled = registered
    /\ undone # NotRun => undone = registered

------------------------------------------------------------------------------
(* Properties of the paths of Retry.add_triggers and of the reconciliation. *)

\* Retry.add_triggers leaves its sync check for one of its two branches.
C31_Branch ==
    (tpc = "ra_check" /\ tpc' # "ra_check")
        => (tpc' = "ra_validate" <=> repl_name \in syncs)

\* C31: Retry.add_triggers takes the reconcile-only path (validate_sync and
\* _manage_triggers) if and only if a sync for this replication name is
\* registered; a sync registered under another replication name does not
\* make it skip the registration.
C31_ReconcileOnlyIffOwnSync == [][C31_Branch]_vars

\* The triggers of name k are as they were when the call began, and no pass
\* of the call names k.
Untouched(k) ==
    /\ \A t \in TrigTables : tg[t][k] = tg0[t][k]
    /\ \A i \in DOMAIN passes : passes[i].trigger # k

\* C32: a _manage_triggers call issues no ALTER for the truncate trigger
\* when cascade is false and none for the kick trigger when cascade and
\* asynchronous_kicking are both false; with both flags false every trigger
\* of every table stays in the state it had before the call.
C32_FlagsOffNoAlter ==
    InManage =>
        /\ ~cascade => Untouched(Trunc)
        /\ (~cascade /\ ~async_kick) => (Untouched(Kick) /\ tg = tg0 /\ alters = 0)

\* A call with both flags false has returned on tables whose kick trigger is
\* disabled and whose truncate trigger is enabled always.
C32_Witness ==
    /\ tpc = "manage_end"
    /\ ~cascade /\ ~async_kick
    /\ \A t \in FindObjects("r") : tg[t][Kick] = "D" /\ tg[t][Trunc] = "A"

\* The iteration of _toggle_triggers on a table that has no trigger of the
\* name asked for.
C33_MissingTriggerStep ==
    (/\ tpc = "toggle_loop"
     /\ tq # <<>>
     /\ tq' # tq
     /\ tg[Head(tq)][Head(passes).trigger] = "absent")
        => /\ alters' = alters
           /\ tg' = tg
           /\ skipped' = skipped
           /\ tres' = "running"
           /\ tpc' = "toggle_loop"
           /\ tq' = Tail(tq)

\* C33: for a table on which the named trigger does not exist,
\* _toggle_triggers issues no ALTER and raises no error; the pass goes on
\* with the next table, as for a trigger already in the state asked for.
C33_MissingTriggerSkipped == [][C33_MissingTriggerStep]_vars

\* A pass is over that went by a table without the trigger and altered the
\* trigger of another table.
C33_Witness ==
    /\ tpc = "toggle_loop" /\ tq = <<>> /\ tres = "running"
    /\ alters = 1
    /\ \E t1, t2 \in FindObjects("r") :
          /\ tg[t1][Head(passes).trigger] = "absent"
          /\ tg[t2][Head(passes).trigger] # tg0[t2][Head(passes).trigger]

------------------------------------------------------------------------------
(* Properties of the size threshold.                                        *)

\* The names drop() has discovered on a table so far in this run.
DiscoveredOn(t) == {d.indexname : d \in {x \in discovered : x.tablename = t}}

\* The indexes and unique constraints of a table that are not its primary key.
EligibleOn(t) == {o.name : o \in {x \in pcat : x.tbl = t /\ x.kind # "p"}}

------------------------------------------------------------------------------
(* Properties of wait_for_copy.                                             *)

CopyConfigured == cfg_bucardo.copy_data \in {"always", "empty"}

\* The onetimecopy flag of this replication's sync is 0.
OwnCopyDone == repl_name \in DOMAIN sync_rows /\ sync_rows[repl_name] = 0

\* With no copy configured the call returns True at once, no connection made.
C35_NoPollStep ==
    (ppc = "idle" /\ ppc' # "idle" /\ ~CopyConfigured)
        => (ppc' = "done" /\ pres' = "ok" /\ pconn' = "none")

\* A call that returns has read 0 in a poll, and the flag of the sync is 0.
C35_ReturnsAfterZero ==
    (ppc = "done" /\ pres = "ok" /\ CopyConfigured) => (read_zero /\ OwnCopyDone)

\* A connection is open during the query of a poll, and only then.
C35_OneConnectionPerPoll == (pconn = "bucardo") <=> (ppc = "query")

\* A call that keeps polling returns once the flag of the sync is 0.
C35_EventuallyReturns ==
    (ppc \in {"connect", "query", "sleep"} /\ OwnCopyDone) ~> (ppc = "done" /\ pres = "ok")

\* C35: wait_for_copy returns without polling when copy_data is neither
\* 'always' nor 'empty'; otherwise it returns only after a poll has read the
\* sync's onetimecopy flag as 0, one connection opened and closed per poll;
\* and when the engine has set the flag to 0 for good, wait_for_copy
\* eventually returns.
C35_WaitForCopy ==
    /\ [][C35_NoPollStep]_vars
    /\ []C35_ReturnsAfterZero
    /\ []C35_OneConnectionPerPoll
    /\ C35_EventuallyReturns

------------------------------------------------------------------------------
(* Properties of the background kick process.                               *)

\* C36: over any sequence of start, stop and restart calls with asynchronous
\* kicking enabled, at most one kick process is alive, the pidfile, when
\* present, holds the pid of that process, and after stop() no kick process
\* started by the wrapper is alive.
C36_OneKickProcess ==
    /\ Cardinality(kick_alive) <= 1
    /\ (autokick_pidfile # NoFile /\ kick_alive # {}) => kick_alive = {autokick_pidfile}
    /\ last_call = "stop" => kick_alive = {}

------------------------------------------------------------------------------
(* Properties of the interactive loop.                                      *)

\* C37: in interactive mode the wrapper shows the prompt again after every
\* command entered; in particular an unrecognized command is reported as
\* such and a command interrupted with Ctrl-C is left, and neither ends the
\* session: the session has not ended on such a command (unless the operator
\* pressed Ctrl-C once more, during its validation).
C37_RepromptAfterEveryCommand ==
    (wpc = "ended" /\ cmds # <<>> /\ Head(cmds) # "exit")
        => \/ log[Len(log)].func \notin {"unrecognized", "interrupted"}
           \/ log[Len(log)].valid = "interrupted"

====
